---- MODULE Spec2Model ----
(***************************************************************************)
(* Task recurrence and completion engine of mindloom (tasks.py,            *)
(* utils/recurrence.py).                                                   *)
(*                                                                         *)
(* Dates are proleptic Gregorian day numbers (days since 1970-01-01), the  *)
(* way datetime.date orders and subtracts them.  An ISO string is kept as  *)
(* its year/month/day fields, so that date.fromisoformat can reject a      *)
(* malformed one and date.isoformat is a real conversion.  A recurrence    *)
(* string is kept as its whitespace separated tokens plus its leading and  *)
(* trailing blanks, so that strip, lower and the regular expressions of    *)
(* the normalizer act on it.                                               *)
(***************************************************************************)
EXTENDS Integers, Sequences, FiniteSets, TLC

VARIABLES tasks, log, today, last, probe

vars == <<tasks, log, today, last, probe>>

----------------------------------------------------------------------------
(* Bounds of the model. *)

\* Number of consecutive base dates, from AdvFirst on, the advancer is probed on.
AdvSpan == 430
\* Number of consecutive days, from ClockFirst on, the clock may start at.
ClockSpan == 2
\* Number of days the clock may advance.
MaxTicks == 1
\* Number of operations in a run.
MaxOps == 2

----------------------------------------------------------------------------
(* datetime.date *)

NoDate == 0 - 1

IsLeap(y) == (y % 4 = 0) /\ ((y % 100 # 0) \/ (y % 400 = 0))

\* calendar.monthrange(year, month)[1]
DaysInMonth(y, m) ==
    IF m = 2 THEN (IF IsLeap(y) THEN 29 ELSE 28)
    ELSE IF m \in {4, 6, 9, 11} THEN 30 ELSE 31

\* date(y, m, d) as a day number
ToOrdinal(y, m, d) ==
    LET yy  == IF m <= 2 THEN y - 1 ELSE y
        era == yy \div 400
        yoe == yy - era * 400
        mp  == IF m > 2 THEN m - 3 ELSE m + 9
        doy == (153 * mp + 2) \div 5 + d - 1
        doe == yoe * 365 + yoe \div 4 - yoe \div 100 + doy
    IN  era * 146097 + doe - 719468

\* the year, month and day of a day number
FromOrdinal(z) ==
    LET zz  == z + 719468
        era == zz \div 146097
        doe == zz - era * 146097
        yoe == (doe - doe \div 1460 + doe \div 36524 - doe \div 146096) \div 365
        doy == doe - (365 * yoe + yoe \div 4 - yoe \div 100)
        mp  == (5 * doy + 2) \div 153
        d   == doy - (153 * mp + 2) \div 5 + 1
        m   == IF mp < 10 THEN mp + 3 ELSE mp - 9
        y   == yoe + era * 400 + (IF m <= 2 THEN 1 ELSE 0)
    IN  [y |-> y, m |-> m, d |-> d]

\* date.weekday(): Monday is 0, Sunday is 6
Weekday(z) == (z + 3) % 7

Min(a, b) == IF a <= b THEN a ELSE b

\* the date of the given year and month, the day clamped to that month
ClampedDate(year, month, day) ==
    ToOrdinal(year, month, Min(DaysInMonth(year, month), day))

\* relativedelta.__radd__ for years and months on the date with fields dt
AddMonthsTo(dt, years, months) ==
    IF dt.m + months > 12
    THEN ClampedDate(dt.y + years + 1, dt.m + months - 12, dt.d)
    ELSE ClampedDate(dt.y + years, dt.m + months, dt.d)

\* dt + relativedelta(years=years, months=months)
AddMonths(z, years, months) == AddMonthsTo(FromOrdinal(z), years, months)

\* dt + relativedelta(weekday=weekday_cls(nth))
AddWeekday(z, nth, weekday) ==
    LET absn == IF nth < 0 THEN 0 - nth ELSE nth
        jump == (absn - 1) * 7
    IN  IF nth > 0
        THEN z + jump + ((7 - Weekday(z) + weekday) % 7)
        ELSE z - (jump + ((Weekday(z) - weekday) % 7))

----------------------------------------------------------------------------
(* Field values: None, a datetime.date, or a string read as an ISO date. *)

NoneVal == [k |-> "none", y |-> 0, m |-> 0, d |-> 0, pad |-> FALSE]
IsoStr(y, m, d) == [k |-> "str", y |-> y, m |-> m, d |-> d, pad |-> FALSE]
DateObj(y, m, d) == [k |-> "date", y |-> y, m |-> m, d |-> d, pad |-> FALSE]
\* the string "" and a string that is no date at all, such as "soon"
EmptyStr == [k |-> "empty", y |-> 0, m |-> 0, d |-> 0, pad |-> FALSE]
BadStr == IsoStr(0, 0, 0)
\* the string with blanks around it
PaddedStr(v) == [v EXCEPT !.pad = TRUE]

\* the field value holding the datetime.date z
DateOf(z) ==
    LET dt == FromOrdinal(z) IN DateObj(dt.y, dt.m, dt.d)

\* date.isoformat()
isoformat(z) ==
    LET dt == FromOrdinal(z) IN IsoStr(dt.y, dt.m, dt.d)

\* date.fromisoformat(value) succeeds
ValidIso(v) ==
    /\ v.k = "str" /\ ~v.pad
    /\ v.m \in 1..12
    /\ v.y \in 1..9999
    /\ v.d \in 1..DaysInMonth(v.y, v.m)

\* date.fromisoformat(value), NoDate standing for the ValueError
fromisoformat(v) ==
    IF ValidIso(v) THEN ToOrdinal(v.y, v.m, v.d) ELSE NoDate

\* bool(value) of a field value
Truthy(v) == v.k \notin {"none", "empty"}

\* str(value) of a field value that is not None
StrOf(v) == IF v.k = "date" THEN IsoStr(v.y, v.m, v.d) ELSE v

\* str.strip() of a string field value
StripStr(v) == [v EXCEPT !.pad = FALSE]

----------------------------------------------------------------------------
(* Recurrence strings *)

Tok(s) == [t |-> "w", s |-> s, up |-> FALSE, n |-> 0]
\* the same letters with at least one of them in upper case
TokUp(s) == [t |-> "w", s |-> s, up |-> TRUE, n |-> 0]
\* a run of decimal digits
Num(n) == [t |-> "n", s |-> "", up |-> FALSE, n |-> n]

Text(toks) == [k |-> "str", lead |-> FALSE, trail |-> FALSE, toks |-> toks]
Padded(toks) == [k |-> "str", lead |-> TRUE, trail |-> TRUE, toks |-> toks]
\* the value None, and a task without the key
NoneText == [k |-> "none", lead |-> FALSE, trail |-> FALSE, toks |-> <<>>]
MissingText == [k |-> "missing", lead |-> FALSE, trail |-> FALSE, toks |-> <<>>]

\* bool(value): a non-empty string
TextTruthy(v) == v.k = "str" /\ (v.lead \/ v.trail \/ v.toks # <<>>)

\* str(value) of a recurrence value (str(None) is "None")
TextOf(v) == IF v.k = "str" THEN v ELSE Text(<<TokUp("none")>>)

\* str.lower() and str.casefold()
Lower(v) == [v EXCEPT !.toks = [i \in DOMAIN v.toks |-> [v.toks[i] EXCEPT !.up = FALSE]]]

\* str.strip()
Strip(v) == [v EXCEPT !.lead = FALSE, !.trail = FALSE]

SUPPORTED_KEYWORDS ==
    {"daily", "weekly", "bi-weekly", "monthly", "quarterly", "bi-annual", "yearly"}

OrdinalWords == {"first", "second", "third", "fourth", "last"}
WeekdayWords ==
    {"monday", "tuesday", "wednesday", "thursday", "friday", "saturday", "sunday"}

\* the single lower-case word a string consists of, "" when it is anything else
WordOf(v) ==
    IF v.k = "str" /\ ~v.lead /\ ~v.trail /\ Len(v.toks) = 1
       /\ v.toks[1].t = "w" /\ ~v.toks[1].up
    THEN v.toks[1].s ELSE ""

\* utils.recurrence._INTERVAL_PATTERN: ^\s*(?:every\s+)?(\d+)\s+days?\s*$, IGNORECASE
IntervalMatch(v) ==
    LET n == Len(v.toks)
    IN  \/ /\ n = 2
           /\ v.toks[1].t = "n"
           /\ v.toks[2].t = "w" /\ v.toks[2].s \in {"day", "days"}
        \/ /\ n = 3
           /\ v.toks[1].t = "w" /\ v.toks[1].s = "every"
           /\ v.toks[2].t = "n"
           /\ v.toks[3].t = "w" /\ v.toks[3].s \in {"day", "days"}

\* int(interval_match.group(1))
IntervalCount(v) == v.toks[Len(v.toks) - 1].n

\* utils.recurrence._ORDINAL_PATTERN, IGNORECASE
OrdinalMatch(v) ==
    /\ Len(v.toks) = 2
    /\ v.toks[1].t = "w" /\ v.toks[1].s \in OrdinalWords
    /\ v.toks[2].t = "w" /\ v.toks[2].s \in WeekdayWords

\* normalize_recurrence_value without the count >= 1 test
normalize_accepting_zero(value) ==
    IF value.k # "str" THEN NoneText
    ELSE LET candidate  == Strip(value)
             normalized == Lower(candidate)
         IN  IF candidate.toks = <<>> THEN NoneText
             ELSE IF WordOf(normalized) \in SUPPORTED_KEYWORDS THEN normalized
             ELSE IF IntervalMatch(candidate)
                  THEN Text(<<Tok("every"), Num(IntervalCount(candidate)), Tok("days")>>)
             ELSE IF OrdinalMatch(candidate)
                  THEN Text(<<Tok(candidate.toks[1].s), Tok(candidate.toks[2].s)>>)
             ELSE NoneText

normalize_recurrence_value(value) ==
    IF value.k # "str" THEN NoneText
    ELSE LET candidate  == Strip(value)
             normalized == Lower(candidate)
         IN  IF candidate.toks = <<>> THEN NoneText
             ELSE IF WordOf(normalized) \in SUPPORTED_KEYWORDS THEN normalized
             ELSE IF IntervalMatch(candidate) /\ IntervalCount(candidate) >= 1
                  THEN Text(<<Tok("every"), Num(IntervalCount(candidate)), Tok("days")>>)
             ELSE IF OrdinalMatch(candidate)
                  THEN Text(<<Tok(candidate.toks[1].s), Tok(candidate.toks[2].s)>>)
             ELSE NoneText

----------------------------------------------------------------------------
(* tasks.py: the recurrence advancer *)

\* RECURRENCE_DAYS.get(normalized), 0 for None
RECURRENCE_DAYS(w) ==
    CASE w = "daily" -> 1
      [] w = "weekly" -> 7
      [] w = "bi-weekly" -> 14
      [] w = "monthly" -> 30
      [] w = "quarterly" -> 91
      [] w = "bi-annual" -> 182
      [] w = "yearly" -> 365
      [] OTHER -> 0

\* CALENDAR_RECURRENCE_DELTAS.get(normalized) as <<years, months>>, <<0, 0>> for None
CALENDAR_RECURRENCE_DELTAS(w) ==
    CASE w = "monthly" -> <<0, 1>>
      [] w = "quarterly" -> <<0, 3>>
      [] w = "bi-annual" -> <<0, 6>>
      [] w = "yearly" -> <<1, 0>>
      [] OTHER -> <<0, 0>>

\* _ORDINALS.get(word), 0 for None
_ORDINALS(w) ==
    CASE w = "first" -> 1
      [] w = "second" -> 2
      [] w = "third" -> 3
      [] w = "fourth" -> 4
      [] w = "last" -> 0 - 1
      [] OTHER -> 0

\* _WEEKDAY_MAP.get(word), -1 for None
_WEEKDAY_MAP(w) ==
    CASE w = "monday" -> 0
      [] w = "tuesday" -> 1
      [] w = "wednesday" -> 2
      [] w = "thursday" -> 3
      [] w = "friday" -> 4
      [] w = "saturday" -> 5
      [] w = "sunday" -> 6
      [] OTHER -> 0 - 1

_nth_weekday_of_month(year, month, ordinal, weekday) ==
    AddWeekday(ToOrdinal(year, month, 1), ordinal, weekday)

\* _nth_weekday_of_month for the month of the date with fields dt
NthWeekdayOfMonthOf(dt, ordinal, weekday) ==
    _nth_weekday_of_month(dt.y, dt.m, ordinal, weekday)

\* the choice of _next_monthly_weekday between this month's candidate and
\* the one of the month of next
CandidateOrNext(base, candidate, next, ordinal, weekday) ==
    IF candidate <= base
    THEN NthWeekdayOfMonthOf(FromOrdinal(next), ordinal, weekday)
    ELSE candidate

_next_monthly_weekday(base, ordinal, weekday) ==
    CandidateOrNext(base,
                    NthWeekdayOfMonthOf(FromOrdinal(base), ordinal, weekday),
                    AddMonths(base, 0, 1), ordinal, weekday)

\* tasks._INTERVAL_PATTERN (^every\s+(\d+)\s+days$) and the count >= 1 test; 0 for None
_parse_interval_days(v) ==
    IF /\ ~v.lead /\ ~v.trail /\ Len(v.toks) = 3
       /\ v.toks[1].t = "w" /\ v.toks[1].s = "every"
       /\ v.toks[2].t = "n"
       /\ v.toks[3].t = "w" /\ v.toks[3].s = "days"
       /\ v.toks[2].n >= 1
    THEN v.toks[2].n ELSE 0

\* <<ordinal, weekday>>, <<0, -1>> for None
_parse_monthly_ordinal(v) ==
    IF /\ Len(v.toks) = 2
       /\ v.toks[1].t = "w" /\ ~v.toks[1].up /\ _ORDINALS(v.toks[1].s) # 0
       /\ v.toks[2].t = "w" /\ ~v.toks[2].up /\ _WEEKDAY_MAP(v.toks[2].s) # 0 - 1
    THEN <<_ORDINALS(v.toks[1].s), _WEEKDAY_MAP(v.toks[2].s)>>
    ELSE <<0, 0 - 1>>

\* _advance_for_recurrence once the recurrence is normalized
AdvanceNormalized(base, normalized) ==
    LET word       == WordOf(normalized)
        delta      == CALENDAR_RECURRENCE_DELTAS(word)
        days       == RECURRENCE_DAYS(word)
        interval   == _parse_interval_days(normalized)
        ordinal    == _parse_monthly_ordinal(normalized)
    IN  IF base = NoDate THEN NoDate
        ELSE IF normalized.k = "none" THEN NoDate
        ELSE IF delta # <<0, 0>> THEN AddMonths(base, delta[1], delta[2])
        ELSE IF days # 0 THEN base + days
        ELSE IF interval # 0 THEN base + interval
        ELSE IF ordinal # <<0, 0 - 1>>
             THEN _next_monthly_weekday(base, ordinal[1], ordinal[2])
        ELSE NoDate

\* _advance_for_recurrence looking the keyword up in RECURRENCE_DAYS before
\* CALENDAR_RECURRENCE_DELTAS, so that a month counts as 30 days
_advance_by_day_counts(base, recurrence) ==
    LET normalized == normalize_recurrence_value(recurrence)
        word       == WordOf(normalized)
        delta      == CALENDAR_RECURRENCE_DELTAS(word)
        days       == RECURRENCE_DAYS(word)
        interval   == _parse_interval_days(normalized)
        ordinal    == _parse_monthly_ordinal(normalized)
    IN  IF base = NoDate THEN NoDate
        ELSE IF normalized.k = "none" THEN NoDate
        ELSE IF days # 0 THEN base + days
        ELSE IF delta # <<0, 0>> THEN AddMonths(base, delta[1], delta[2])
        ELSE IF interval # 0 THEN base + interval
        ELSE IF ordinal # <<0, 0 - 1>>
             THEN _next_monthly_weekday(base, ordinal[1], ordinal[2])
        ELSE NoDate

_advance_for_recurrence(base, recurrence) ==
    AdvanceNormalized(base, normalize_recurrence_value(recurrence))

----------------------------------------------------------------------------
(* tasks.py: the due-date resolver *)

\* _next_due._parse_date, NoDate for None
_parse_date(value) ==
    IF value.k = "date" THEN ToOrdinal(value.y, value.m, value.d)
    ELSE IF value.k \in {"str", "empty"} THEN fromisoformat(value)
    ELSE NoDate

\* task.get("recurrence", ""): the default only replaces a missing key
GetRecurrence(task) ==
    IF task.recurrence.k = "missing" THEN Text(<<>>) ELSE task.recurrence

\* the choice of _next_due between today, due and the advanced date
DueOrAdvanced(recurrence, due_date, last_completed_date, recurrence_date, day) ==
    IF ~TextTruthy(recurrence) THEN day
    ELSE IF /\ due_date # NoDate
            /\ (last_completed_date = NoDate \/ due_date > last_completed_date)
         THEN due_date
    ELSE IF recurrence_date # NoDate THEN recurrence_date
    ELSE day

\* _next_due once recurrence, due and last_completed are read from the task
NextDueOf(recurrence, due_date, last_completed_date, day) ==
    DueOrAdvanced(recurrence, due_date, last_completed_date,
                  _advance_for_recurrence(
                      IF last_completed_date # NoDate THEN last_completed_date
                      ELSE day,
                      recurrence),
                  day)

\* _next_due without the test that respects a due later than last_completed
_next_due_ignoring_due(task, day) ==
    LET recurrence          == Lower(TextOf(GetRecurrence(task)))
        last_completed_date == _parse_date(task.last_completed)
        base                == IF last_completed_date # NoDate
                               THEN last_completed_date ELSE day
        recurrence_date     == _advance_for_recurrence(base, recurrence)
    IN  IF ~TextTruthy(recurrence) THEN day
        ELSE IF recurrence_date # NoDate THEN recurrence_date
        ELSE day

\* _next_due advancing from today whatever last_completed is
_next_due_from_today(task, day) ==
    DueOrAdvanced(Lower(TextOf(GetRecurrence(task))), _parse_date(task.due),
                  _parse_date(task.last_completed),
                  _advance_for_recurrence(day, Lower(TextOf(GetRecurrence(task)))),
                  day)

_next_due(task, day) ==
    NextDueOf(Lower(TextOf(GetRecurrence(task))), _parse_date(task.due),
              _parse_date(task.last_completed), day)

----------------------------------------------------------------------------
(* tasks.py: the completion log *)

_normalize_completion_timestamp(value) ==
    IF value.k = "date" THEN IsoStr(value.y, value.m, value.d)
    ELSE IF value.k \in {"str", "empty"}
         THEN (IF Truthy(StripStr(value)) THEN StripStr(value) ELSE NoneVal)
    ELSE NoneVal

\* record_task_completion without the test for a key that is already logged
record_without_dedup(entries, task, completed_at) ==
    LET timestamp == _normalize_completion_timestamp(
                         IF Truthy(completed_at) THEN completed_at
                         ELSE task.last_completed)
        entry     == [task_id      |-> task.id,
                      due          |-> IF Truthy(task.due) THEN StrOf(task.due)
                                       ELSE EmptyStr,
                      completed_at |-> timestamp]
    IN  IF ~Truthy(timestamp) THEN entries ELSE Append(entries, entry)

\* record_task_completion keeping one entry per task: an earlier entry of the
\* task is dropped when the new one is written
record_replacing_entry(entries, task, completed_at) ==
    LET timestamp == _normalize_completion_timestamp(
                         IF Truthy(completed_at) THEN completed_at
                         ELSE task.last_completed)
        entry     == [task_id      |-> task.id,
                      due          |-> IF Truthy(task.due) THEN StrOf(task.due)
                                       ELSE EmptyStr,
                      completed_at |-> timestamp]
        seen      == {<<entries[i].task_id, entries[i].completed_at>> :
                          i \in DOMAIN entries}
    IN  IF ~Truthy(timestamp) THEN entries
        ELSE IF <<entry.task_id, entry.completed_at>> \in seen THEN entries
        ELSE Append(SelectSeq(entries, LAMBDA e : e.task_id # task.id), entry)

\* the completion log after record_task_completion(task, completed_at=completed_at);
\* title, project, area and energy_cost of the entry are copied from the task
\* and not kept here
record_task_completion(entries, task, completed_at) ==
    LET timestamp == _normalize_completion_timestamp(
                         IF Truthy(completed_at) THEN completed_at
                         ELSE task.last_completed)
        entry     == [task_id      |-> task.id,
                      due          |-> IF Truthy(task.due) THEN StrOf(task.due)
                                       ELSE EmptyStr,
                      completed_at |-> timestamp]
        seen      == {<<entries[i].task_id, entries[i].completed_at>> :
                          i \in DOMAIN entries}
    IN  IF ~Truthy(timestamp) THEN entries
        ELSE IF <<entry.task_id, entry.completed_at>> \in seen THEN entries
        ELSE Append(entries, entry)

----------------------------------------------------------------------------
(* tasks.py: completing and annotating tasks *)

\* complete_task closing the task whether it recurs or not
complete_task_closing(task, day) ==
    LET stamped == [task EXCEPT !.last_completed = isoformat(day)]
    IN  IF TextTruthy(task.recurrence)
        THEN [stamped EXCEPT !.status = "complete",
                             !.due = isoformat(_next_due(stamped, day))]
        ELSE [stamped EXCEPT !.status = "complete"]

\* complete_task computing the next due date from the task as it was before
\* last_completed is stamped
complete_task_before_stamp(task, day) ==
    LET stamped == [task EXCEPT !.last_completed = isoformat(day)]
    IN  IF TextTruthy(task.recurrence)
        THEN [stamped EXCEPT !.status = "active",
                             !.due = isoformat(_next_due(task, day))]
        ELSE [stamped EXCEPT !.status = "complete"]

\* the task after complete_task(task, day)
complete_task(task, day) ==
    LET stamped == [task EXCEPT !.last_completed = isoformat(day)]
    IN  IF TextTruthy(task.recurrence)
        THEN [stamped EXCEPT !.status = "active",
                             !.due = isoformat(_next_due(stamped, day))]
        ELSE [stamped EXCEPT !.status = "complete"]

\* the body of the loop of apply_recurrence raises ValueError on this task
AnnotateRaises(task) ==
    /\ ~TextTruthy(task.recurrence)
    /\ Truthy(task.due)
    /\ fromisoformat(StrOf(task.due)) = NoDate

\* the recurring branch of the loop of apply_recurrence
AnnotateRecurring(task, next_due, day) ==
    [task EXCEPT !.next_due = isoformat(next_due),
                 !.due_today = IF next_due <= day THEN "true" ELSE "false"]

\* the body of the loop of apply_recurrence on a task it does not raise on
Annotate(task, day) ==
    IF TextTruthy(task.recurrence)
    THEN AnnotateRecurring(task, _next_due(task, day), day)
    ELSE IF Truthy(task.due)
    THEN [task EXCEPT !.due_today = IF fromisoformat(StrOf(task.due)) <= day
                                    THEN "true" ELSE "false"]
    ELSE [task EXCEPT !.due_today = "false"]

\* the positions of ids whose task apply_recurrence reaches: all of them, or
\* those up to the first task it raises on
Reached(ts, ids) ==
    {n \in DOMAIN ids : \A j \in 1..(n - 1) : ~AnnotateRaises(ts[ids[j]])}

\* the task list after apply_recurrence([ts[i] : i in ids], day)
apply_recurrence(ts, ids, day) ==
    [i \in DOMAIN ts |->
        IF \E n \in Reached(ts, ids) : ids[n] = i /\ ~AnnotateRaises(ts[i])
        THEN Annotate(ts[i], day) ELSE ts[i]]

ApplyRaises(ts, ids) == \E n \in DOMAIN ids : AnnotateRaises(ts[ids[n]])

----------------------------------------------------------------------------
(* The states the operations are exercised on. *)

\* first base date probed: 2023-01-01
AdvFirst == ToOrdinal(2023, 1, 1)
\* first day of the clock: 2024-01-30, so that a month end is crossed
ClockFirst == ToOrdinal(2024, 1, 30)
LastDay == ClockFirst + ClockSpan - 1 + MaxTicks

TaskIds == {1, 2}

Keyword(w) == Text(<<Tok(w)>>)
EveryDays(n) == Text(<<Tok("every"), Num(n), Tok("days")>>)
OrdinalRule(o, w) == Text(<<Tok(o), Tok(w)>>)

\* recurrence values a stored task may carry
UnsupportedTexts ==
    {Keyword("sometimes"), Padded(<<>>),
     Text(<<Tok("every"), Tok("zero"), Tok("days")>>), EveryDays(0)}
AbsentTexts == {MissingText, NoneText, Text(<<>>)}
AdvRecurrences ==
    {Keyword(w) : w \in SUPPORTED_KEYWORDS}
    \cup {EveryDays(1), EveryDays(3), EveryDays(10)}
    \cup {Padded(<<Num(9), TokUp("days")>>), Text(<<TokUp("bi-weekly")>>)}
    \cup {OrdinalRule(o, w) : o \in OrdinalWords, w \in WeekdayWords}
    \cup UnsupportedTexts
StoredRecurrences ==
    {MissingText}
    \cup {Keyword("daily"), Text(<<TokUp("weekly")>>), Keyword("monthly"),
          OrdinalRule("last", "friday"), Keyword("sometimes")}
TaskRecurrences ==
    {MissingText, NoneText}
    \cup {Keyword("daily"), Text(<<TokUp("weekly")>>), Keyword("monthly"),
          EveryDays(2), OrdinalRule("last", "friday"), Keyword("sometimes")}

NewTask(id, status, recurrence, due, last_completed) ==
    [id |-> id, status |-> status, recurrence |-> recurrence, due |-> due,
     last_completed |-> last_completed, next_due |-> NoneVal,
     due_today |-> "absent"]

NoOp == [op |-> "init", ids |-> <<>>, arg |-> NoneVal, raised |-> FALSE, n |-> 0]

\* the record of the operation that has just run
Op(op, ids, arg, raised) ==
    [op |-> op, ids |-> ids, arg |-> arg, raised |-> raised, n |-> last.n + 1]
IdleProbe ==
    [fn |-> "none", task |-> NewTask(0, "active", MissingText, NoneVal, NoneVal),
     day |-> 0, out |-> NoDate, done |-> FALSE]

\* the first task of the list
FirstTasks ==
    {NewTask(1, s, r, d, l) :
        s \in {"active", "complete"},
        r \in StoredRecurrences,
        d \in {NoneVal, BadStr, isoformat(ClockFirst - 1),
               DateOf(ClockFirst + 1)},
        l \in {NoneVal, isoformat(ClockFirst - 2), isoformat(ClockFirst)}}

\* the second task of the list
SecondTasks ==
    {NewTask(2, "active", MissingText, NoneVal, NoneVal),
     NewTask(2, "active", MissingText, BadStr, NoneVal),
     NewTask(2, "waiting", Keyword("daily"), isoformat(ClockFirst), PaddedStr(isoformat(ClockFirst)))}

\* completion logs without duplicate keys
InitLogs ==
    {<<>>,
     <<[task_id |-> 1, due |-> EmptyStr, completed_at |-> isoformat(ClockFirst)],
       [task_id |-> 2, due |-> EmptyStr, completed_at |-> isoformat(ClockFirst)]>>}

Init ==
    /\ tasks \in {[i \in TaskIds |-> IF i = 1 THEN a ELSE b] :
                     a \in FirstTasks, b \in SecondTasks}
    /\ log \in InitLogs
    /\ today \in ClockFirst..(ClockFirst + ClockSpan - 1)
    /\ last = NoOp
    /\ probe = IdleProbe

----------------------------------------------------------------------------
(* The operations. *)

\* complete_task(tasks[i], today)
CompleteTask(i) ==
    /\ last.n < MaxOps
    /\ tasks' = [tasks EXCEPT ![i] = complete_task(tasks[i], today)]
    /\ log' = record_task_completion(
                  log, [tasks[i] EXCEPT !.last_completed = isoformat(today)],
                  isoformat(today))
    /\ last' = Op("complete_task", <<i>>, NoneVal, FALSE)
    /\ UNCHANGED <<today, probe>>

\* record_task_completion(tasks[i], completed_at=c)
RecordTaskCompletion(i, c) ==
    /\ last.n < MaxOps
    /\ log' = record_task_completion(log, tasks[i], c)
    /\ last' = Op("record_task_completion", <<i>>, c, FALSE)
    /\ UNCHANGED <<tasks, today, probe>>

\* apply_recurrence([tasks[i] : i in ids], today)
ApplyRecurrence(ids) ==
    /\ last.n < MaxOps
    /\ tasks' = apply_recurrence(tasks, ids, today)
    /\ last' = Op("apply_recurrence", ids, NoneVal, ApplyRaises(tasks, ids))
    /\ UNCHANGED <<log, today, probe>>

\* midnight passes
Tick ==
    /\ last.n < MaxOps
    /\ today < LastDay
    /\ today' = today + 1
    /\ last' = Op("tick", <<>>, NoneVal, FALSE)
    /\ UNCHANGED <<tasks, log, probe>>

Batches == {<<1>>, <<1, 2>>, <<2, 1>>}
CompletedAtInputs(day) ==
    {NoneVal, DateOf(day), PaddedStr(isoformat(day))}

Next ==
    \/ \E i \in TaskIds : CompleteTask(i)
    \/ \E i \in TaskIds : \E c \in CompletedAtInputs(today) : RecordTaskCompletion(i, c)
    \/ \E ids \in Batches : ApplyRecurrence(ids)
    \/ Tick

Spec == Init /\ [][Next]_vars

----------------------------------------------------------------------------
(* The advancer and the resolver on their own. *)

InitAdvance ==
    /\ probe \in {[IdleProbe EXCEPT !.fn = "advance", !.day = b,
                                    !.task.recurrence = r] :
                     b \in AdvFirst..(AdvFirst + AdvSpan - 1), r \in AdvRecurrences}
    /\ tasks = [i \in TaskIds |-> NewTask(i, "active", MissingText, NoneVal, NoneVal)]
    /\ log = <<>>
    /\ today = ClockFirst
    /\ last = NoOp

\* out = _advance_for_recurrence(base, recurrence)
AdvanceStep ==
    /\ probe.fn = "advance" /\ ~probe.done
    /\ probe' = [probe EXCEPT
                    !.out = _advance_for_recurrence(probe.day, probe.task.recurrence),
                    !.done = TRUE]
    /\ UNCHANGED <<tasks, log, today, last>>

NextAdvance == AdvanceStep

SpecAdvance == InitAdvance /\ [][NextAdvance]_vars

InitNextDue ==
    /\ probe \in {[IdleProbe EXCEPT !.fn = "next_due", !.day = z,
                                    !.task = NewTask(1, "active", r, d, l)] :
                     z \in ClockFirst..LastDay,
                     r \in TaskRecurrences \cup UnsupportedTexts,
                     d \in {NoneVal, BadStr, EmptyStr,
                            PaddedStr(isoformat(ClockFirst)),
                            isoformat(ClockFirst - 2), isoformat(ClockFirst + 1),
                            DateOf(ClockFirst + 3), isoformat(ClockFirst + 40)},
                     l \in {NoneVal, BadStr, isoformat(ClockFirst - 3),
                            isoformat(ClockFirst + 1), DateOf(ClockFirst + 2)}}
    /\ tasks = [i \in TaskIds |-> NewTask(i, "active", MissingText, NoneVal, NoneVal)]
    /\ log = <<>>
    /\ today = ClockFirst
    /\ last = NoOp

\* out = _next_due(task, today)
NextDueStep ==
    /\ probe.fn = "next_due" /\ ~probe.done
    /\ probe' = [probe EXCEPT !.out = _next_due(probe.task, probe.day),
                              !.done = TRUE]
    /\ UNCHANGED <<tasks, log, today, last>>

NextNextDue == NextDueStep

SpecNextDue == InitNextDue /\ [][NextNextDue]_vars

----------------------------------------------------------------------------
(* The task store (tasks.yaml) and the handlers that rewrite it.  Under     *)
(* SpecStore the variable tasks is the persisted list, in file order.       *)

\* Number of tasks the store may grow to.
MaxStore == 3

\* a status that is missing or empty
NoStatus == ""

\* routes.tasks_page._strip_runtime_fields
_strip_runtime_fields(task) ==
    [task EXCEPT !.next_due = NoneVal, !.due_today = "absent"]

\* the positions of a list, in order
Positions(ts) == [n \in DOMAIN ts |-> n]

\* tasks.read_tasks: the stored list annotated by apply_recurrence
read_tasks(store, day) == apply_recurrence(store, Positions(store), day)

\* read_tasks raises, and the handler that called it writes nothing
ReadRaises(store) == ApplyRaises(store, Positions(store))

\* the completion log after complete_task has run, in list order, on the
\* tasks of ts at the positions of done, from position n on
RECURSIVE CompletionsLogged(_, _, _, _, _)
CompletionsLogged(entries, ts, done, day, n) ==
    IF n > Len(ts) THEN entries
    ELSE CompletionsLogged(
             IF n \in done
             THEN record_task_completion(
                      entries, [ts[n] EXCEPT !.last_completed = isoformat(day)],
                      isoformat(day))
             ELSE entries,
             ts, done, day, n + 1)

\* task.pop("next_due", None); task.pop("due_today", None)
PopRuntimeFields(task) ==
    [task EXCEPT !.next_due = NoneVal, !.due_today = "absent"]

\* the loop of mark_tasks_complete without the two pops
MarkLoadedKeepingFields(loaded, task_ids, day) ==
    [n \in DOMAIN loaded |->
        IF loaded[n].id \in task_ids
        THEN complete_task(loaded[n], day) ELSE loaded[n]]

\* the loop of mark_tasks_complete over the tasks read_tasks returned
MarkLoaded(loaded, task_ids, day) ==
    [n \in DOMAIN loaded |->
        PopRuntimeFields(IF loaded[n].id \in task_ids
                         THEN complete_task(loaded[n], day) ELSE loaded[n])]

\* the list tasks.mark_tasks_complete(task_ids) writes
mark_tasks_complete(store, task_ids, day) ==
    MarkLoaded(read_tasks(store, day), task_ids, day)

\* max_id of create_task
MaxId(ts) ==
    IF ts = <<>> THEN 0
    ELSE CHOOSE m \in {ts[n].id : n \in DOMAIN ts} :
             \A n \in DOMAIN ts : ts[n].id <= m

\* create_task once read_tasks has returned existing_tasks
CreateFrom(existing_tasks, payload) ==
    LET persisted_tasks == [n \in DOMAIN existing_tasks |->
                               _strip_runtime_fields(existing_tasks[n])]
        task == NewTask(MaxId(persisted_tasks) + 1,
                        IF payload.status = NoStatus THEN "active"
                        ELSE payload.status,
                        IF TextTruthy(payload.recurrence) THEN payload.recurrence
                        ELSE MissingText,
                        IF payload.due.k = "date" THEN StrOf(payload.due)
                        ELSE NoneVal,
                        IF payload.last_completed.k = "date"
                        THEN StrOf(payload.last_completed) ELSE NoneVal)
    IN  Append(persisted_tasks, task)

\* the list routes.tasks_page.create_task(payload) writes; due and
\* last_completed of the payload are dates or None
create_task(store, payload, day) ==
    CreateFrom(read_tasks(store, day), payload)

\* what the form of /manage-tasks holds for one task: no key at all, the
\* delete box, or the edited fields with or without the complete box
FormAbsent ==
    [kind |-> "absent", complete |-> FALSE, recurrence |-> MissingText,
     due |-> NoneVal, last_completed |-> NoneVal, status |-> NoStatus]
FormDelete == [FormAbsent EXCEPT !.kind = "delete"]
FormSubmit(complete, recurrence, due, last_completed, status) ==
    [kind |-> "submit", complete |-> complete, recurrence |-> recurrence,
     due |-> due, last_completed |-> last_completed, status |-> status]

\* _update_field of save_tasks over recurrence, due, last_completed and status
UpdateFields(task, entry) ==
    [task EXCEPT
        !.recurrence = IF TextTruthy(entry.recurrence) THEN entry.recurrence
                       ELSE MissingText,
        !.due = IF Truthy(entry.due) THEN StrOf(entry.due) ELSE NoneVal,
        !.last_completed = IF Truthy(entry.last_completed)
                           THEN StrOf(entry.last_completed) ELSE NoneVal,
        !.status = entry.status]

\* the tasks of save_tasks after their fields are updated, before any
\* of them is completed
Edited(loaded, form) ==
    [n \in DOMAIN loaded |->
        IF form[loaded[n].id].kind = "submit"
        THEN UpdateFields(loaded[n], form[loaded[n].id]) ELSE loaded[n]]

\* the positions save_tasks calls complete_task on
Completed(loaded, form) ==
    {n \in DOMAIN loaded :
        form[loaded[n].id].kind = "submit" /\ form[loaded[n].id].complete}

\* the loop of save_tasks over the tasks read_tasks returned
SaveLoaded(loaded, form, day) ==
    SelectSeq([n \in DOMAIN loaded |->
                  PopRuntimeFields(
                      IF n \in Completed(loaded, form)
                      THEN complete_task(Edited(loaded, form)[n], day)
                      ELSE Edited(loaded, form)[n])],
              LAMBDA t : form[t.id].kind # "delete")

\* the list routes.tasks_page.save_tasks writes for the form
save_tasks(store, form, day) ==
    SaveLoaded(read_tasks(store, day), form, day)

\* the tasks a store starts with
StoreFirstTasks ==
    {NewTask(1, "active", r, d, NoneVal) :
        r \in {MissingText, Keyword("daily")},
        d \in {NoneVal, isoformat(ClockFirst - 1)}}
StoreSecondTasks ==
    {NewTask(2, "active", MissingText, isoformat(ClockFirst + 1), NoneVal),
     NewTask(2, "waiting", Text(<<TokUp("weekly")>>), NoneVal,
             isoformat(ClockFirst - 2))}

\* stores without runtime fields
CleanStores ==
    {<<>>} \cup {<<a>> : a \in StoreFirstTasks}
    \cup {<<a, b>> : a \in StoreFirstTasks, b \in StoreSecondTasks}

InitStore ==
    /\ tasks \in CleanStores
    /\ log = <<>>
    /\ today \in ClockFirst..(ClockFirst + ClockSpan - 1)
    /\ last = NoOp
    /\ probe = IdleProbe

\* the payloads of POST /tasks
Payloads ==
    {[status |-> NoStatus, recurrence |-> NoneText, due |-> NoneVal,
      last_completed |-> NoneVal],
     [status |-> "waiting", recurrence |-> Keyword("monthly"),
      due |-> DateOf(ClockFirst + 1), last_completed |-> DateOf(ClockFirst - 1)]}

\* what a form may hold for a stored task: nothing, the delete box, its
\* fields as they are with the complete box, or its due replaced by "soon"
FormChoices == {"absent", "delete", "complete", "edit"}
FormEntry(task, choice) ==
    CASE choice = "absent" -> FormAbsent
      [] choice = "delete" -> FormDelete
      [] choice = "complete" ->
            FormSubmit(TRUE, task.recurrence, task.due, task.last_completed,
                       task.status)
      [] OTHER ->
            FormSubmit(FALSE, task.recurrence, BadStr, task.last_completed,
                       task.status)

IdsOf(ts) == {ts[n].id : n \in DOMAIN ts}
TaskOf(ts, id) == ts[CHOOSE n \in DOMAIN ts : ts[n].id = id]

\* the forms over the tasks of the store, keyed by task id
Forms(ts) ==
    {[id \in IdsOf(ts) |-> FormEntry(TaskOf(ts, id), c[id])] :
        c \in [IdsOf(ts) -> FormChoices]}

\* POST /tasks
CreateTask(payload) ==
    /\ last.n < MaxOps
    /\ Len(tasks) < MaxStore
    /\ tasks' = IF ReadRaises(tasks) THEN tasks
                ELSE create_task(tasks, payload, today)
    /\ last' = Op("create_task", <<>>, NoneVal, ReadRaises(tasks))
    /\ UNCHANGED <<log, today, probe>>

\* the completion log after the complete_task calls of save_tasks
SaveLogged(entries, loaded, form, day) ==
    CompletionsLogged(entries, Edited(loaded, form), Completed(loaded, form),
                      day, 1)

\* POST /manage-tasks
SaveTasks(form) ==
    /\ last.n < MaxOps
    /\ tasks' = IF ReadRaises(tasks) THEN tasks
                ELSE save_tasks(tasks, form, today)
    /\ log' = IF ReadRaises(tasks) THEN log
              ELSE SaveLogged(log, read_tasks(tasks, today), form, today)
    /\ last' = Op("save_tasks", <<>>, NoneVal, ReadRaises(tasks))
    /\ UNCHANGED <<today, probe>>

\* count of mark_tasks_complete: the tasks the loop has called complete_task on
MarkCount(loaded, task_ids) ==
    Cardinality({n \in DOMAIN loaded : loaded[n].id \in task_ids})

\* the record of an operation that returned a count
Counted(op, count) ==
    [op |-> op.op, ids |-> op.ids, arg |-> op.arg, raised |-> op.raised,
     n |-> op.n, count |-> count]

\* mark_tasks_complete(task_ids)
MarkTasksComplete(task_ids) ==
    /\ last.n < MaxOps
    /\ tasks' = IF ReadRaises(tasks) THEN tasks
                ELSE mark_tasks_complete(tasks, task_ids, today)
    /\ log' = IF ReadRaises(tasks) THEN log
              ELSE CompletionsLogged(
                       log, read_tasks(tasks, today),
                       {n \in DOMAIN tasks : tasks[n].id \in task_ids}, today, 1)
    /\ last' = Counted(Op("mark_tasks_complete", <<>>, task_ids, ReadRaises(tasks)),
                       IF ReadRaises(tasks) THEN 0
                       ELSE MarkCount(read_tasks(tasks, today), task_ids))
    /\ UNCHANGED <<today, probe>>

\* the id lists mark_tasks_complete is called with
IdLists == {{}, {1}, {2, 3}}

NextStore ==
    \/ \E payload \in Payloads : CreateTask(payload)
    \/ \E form \in Forms(tasks) : SaveTasks(form)
    \/ \E task_ids \in IdLists : MarkTasksComplete(task_ids)
    \/ Tick

SpecStore == InitStore /\ [][NextStore]_vars

----------------------------------------------------------------------------
(* task_selector.py and routes/openai_route.py: the energy target.  A      *)
(* number is kept in halves (h), so that a float such as 2.5 is a value    *)
(* and int() is a real truncation.                                         *)

\* Largest integer energy level the resolver is probed on.
MaxEnergy == 6

NoNumber == [k |-> "none", h |-> 0]
IntVal(n) == [k |-> "int", h |-> 2 * n]
\* the float h/2
FloatVal(h) == [k |-> "float", h |-> h]
\* a string of decimal digits, with or without a sign, such as "4"
DigitStr(n) == [k |-> "digits", h |-> 2 * n]
\* a string that is no number, such as "high"
WordStr == [k |-> "word", h |-> 0]

\* int(raw): the integer, or the exception it raises
IntOf(raw) ==
    CASE raw.k = "none" -> [err |-> "TypeError", n |-> 0]
      [] raw.k = "word" -> [err |-> "ValueError", n |-> 0]
      [] OTHER -> [err |-> "",
                   n   |-> IF raw.h >= 0 THEN raw.h \div 2
                           ELSE 0 - ((0 - raw.h) \div 2)]

Max(a, b) == IF a >= b THEN a ELSE b

\* dict.get(key) found nothing
NoTarget == 0 - 1

\* task_selector.MOOD_ENERGY_TARGETS.get(mood_key)
MOOD_ENERGY_TARGETS(mood_key) ==
    CASE mood_key = "sad" -> 1
      [] mood_key = "meh" -> 2
      [] mood_key = "okay" -> 3
      [] mood_key = "joyful" -> 5
      [] OTHER -> NoTarget

\* routes.openai_route.MOOD_ENERGY_TARGETS.get(mood_key)
route_MOOD_ENERGY_TARGETS(mood_key) ==
    CASE mood_key = "sad" -> 1
      [] mood_key = "meh" -> 2
      [] mood_key = "okay" -> 3
      [] mood_key = "joyful" -> 4
      [] OTHER -> NoTarget

\* (mood or "").strip().lower() as a key of the mood tables
StrippedMoodKey(mood) == WordOf(Lower(Strip(mood)))

\* the list values of effective_energy_level
EnergyValues(energy_level, mood_target) ==
    (IF energy_level.k # "none" /\ IntOf(energy_level).err = ""
     THEN <<IntOf(energy_level).n>> ELSE <<>>)
    \o (IF mood_target # NoTarget THEN <<mood_target>> ELSE <<>>)

\* the loop of effective_energy_level lets an exception of int() escape
EnergyRaises(energy_level) ==
    /\ energy_level.k # "none"
    /\ IntOf(energy_level).err \notin {"", "TypeError", "ValueError"}

\* effective_energy_level returning combined as it is
effective_energy_level_unclamped(energy_level, mood, default) ==
    LET values == EnergyValues(energy_level,
                               MOOD_ENERGY_TARGETS(StrippedMoodKey(mood)))
    IN  IF values = <<>> THEN default
        ELSE IF Len(values) = 1 THEN values[1]
        ELSE Min(values[1], values[2])

\* task_selector.effective_energy_level
effective_energy_level(energy_level, mood, default) ==
    LET values == EnergyValues(energy_level,
                               MOOD_ENERGY_TARGETS(StrippedMoodKey(mood)))
    IN  IF values = <<>> THEN default
        ELSE IF Len(values) = 1 THEN Max(0, values[1])
        ELSE Max(0, Min(values[1], values[2]))

\* routes.openai_route.effective_energy_level
route_effective_energy_level(energy_level, mood, default) ==
    LET values == EnergyValues(energy_level,
                               route_MOOD_ENERGY_TARGETS(StrippedMoodKey(mood)))
    IN  IF values = <<>> THEN default
        ELSE IF Len(values) = 1 THEN Max(0, values[1])
        ELSE Max(0, Min(values[1], values[2]))

\* the energy levels, moods and defaults the resolver is probed on
EnergyInputs ==
    {NoNumber, WordStr, DigitStr(4), FloatVal(5), FloatVal(0 - 1), FloatVal(0 - 3)}
    \cup {IntVal(n) : n \in (0 - 2)..MaxEnergy}
MoodInputs ==
    {NoneText, Text(<<>>), Keyword("sad"), Keyword("meh"), Keyword("okay"),
     Keyword("joyful"), Text(<<TokUp("joyful")>>), Text(<<TokUp("sad")>>),
     Padded(<<TokUp("meh")>>), Keyword("sparkly")}
DefaultInputs == {0, 3, 5}

InitEnergy ==
    /\ probe \in {[fn |-> "energy", energy_level |-> e, mood |-> m,
                   default |-> d, out |-> NoTarget, route_out |-> NoTarget,
                   raised |-> FALSE, done |-> FALSE] :
                     e \in EnergyInputs, m \in MoodInputs, d \in DefaultInputs}
    /\ tasks = <<>>
    /\ log = <<>>
    /\ today = ClockFirst
    /\ last = NoOp

\* out = task_selector.effective_energy_level(energy_level, mood, default),
\* route_out = routes.openai_route.effective_energy_level of the same
EnergyStep ==
    /\ probe.fn = "energy" /\ ~probe.done
    /\ probe' = [probe EXCEPT
                    !.out = effective_energy_level(
                                probe.energy_level, probe.mood, probe.default),
                    !.route_out = route_effective_energy_level(
                                      probe.energy_level, probe.mood, probe.default),
                    !.raised = EnergyRaises(probe.energy_level),
                    !.done = TRUE]
    /\ UNCHANGED <<tasks, log, today, last>>

NextEnergy == EnergyStep

SpecEnergy == InitEnergy /\ [][NextEnergy]_vars

----------------------------------------------------------------------------
(* task_selector.py: the next-task selector.  A candidate task carries     *)
(* next_due and due (field values), energy_cost (a number value) and       *)
(* executive_trigger (a string value).                                     *)

\* Longest task list the selector is probed on.
MaxTasks == 2

\* date.max
DateMax == ToOrdinal(9999, 12, 31)

\* the default of the parameter default of effective_energy_level
DefaultEnergy == 3

DEFAULT_EXECUTIVE_TOLERANCE == 1

\* EXECUTIVE_TRIGGER_WEIGHTS.get(key), NoTarget for None
EXECUTIVE_TRIGGER_WEIGHTS(key) ==
    CASE key = "low" -> 0
      [] key = "medium" -> 1
      [] key = "high" -> 2
      [] OTHER -> NoTarget

\* MOOD_EXECUTIVE_TOLERANCE.get(mood_key, DEFAULT_EXECUTIVE_TOLERANCE)
MOOD_EXECUTIVE_TOLERANCE(mood_key) ==
    CASE mood_key = "sad" -> 0
      [] mood_key = "meh" -> 1
      [] mood_key = "okay" -> 1
      [] mood_key = "joyful" -> 2
      [] OTHER -> DEFAULT_EXECUTIVE_TOLERANCE

\* (mood or "").lower() as a key of the mood tables
LoweredMoodKey(mood) == WordOf(Lower(mood))

\* _due_date_value reading due alone
_due_date_value_of_due(task) ==
    IF ~Truthy(task.due) THEN DateMax
    ELSE IF fromisoformat(StrOf(task.due)) = NoDate THEN DateMax
    ELSE fromisoformat(StrOf(task.due))

_due_date_value(task) ==
    LET date_str == IF Truthy(task.next_due) THEN task.next_due ELSE task.due
    IN  IF ~Truthy(date_str) THEN DateMax
        ELSE IF fromisoformat(StrOf(date_str)) = NoDate THEN DateMax
        ELSE fromisoformat(StrOf(date_str))

\* what _energy_cost gives: an int, None, or an exception that escapes it
CostOf(n) == [k |-> "int", n |-> n]
NoCost == [k |-> "none", n |-> 0]
CostRaised == [k |-> "raise", n |-> 0]

\* _energy_cost catching TypeError alone
_energy_cost_catching_type_error(task) ==
    LET cost == IntOf(task.energy_cost)
    IN  IF cost.err = "" THEN CostOf(cost.n)
        ELSE IF cost.err = "TypeError" THEN NoCost
        ELSE CostRaised

_energy_cost(task) ==
    LET cost == IntOf(task.energy_cost)
    IN  IF cost.err = "" THEN CostOf(cost.n)
        ELSE IF cost.err \in {"TypeError", "ValueError"} THEN NoCost
        ELSE CostRaised

\* _executive_weight, NoTarget for None
_executive_weight(task) ==
    IF task.executive_trigger.k # "str" THEN NoTarget
    ELSE EXECUTIVE_TRIGGER_WEIGHTS(WordOf(Lower(Strip(task.executive_trigger))))

Abs(n) == IF n >= 0 THEN n ELSE 0 - n

\* energy_penalty of select_next_task
energy_penalty(task, target_energy) ==
    IF _energy_cost(task).k = "int"
    THEN Abs(_energy_cost(task).n - target_energy) ELSE 0

\* executive_penalty of select_next_task
executive_penalty(task, executive_tolerance) ==
    IF _executive_weight(task) # NoTarget
    THEN Max(0, _executive_weight(task) - executive_tolerance) ELSE 0

\* the reasoning with the energy penalty alone as its total
reasoning_without_trigger(task, target_energy, executive_tolerance) ==
    [due_date          |-> IF _due_date_value(task) # DateMax
                           THEN isoformat(_due_date_value(task)) ELSE NoneVal,
     energy_penalty    |-> energy_penalty(task, target_energy),
     executive_penalty |-> executive_penalty(task, executive_tolerance),
     total_score       |-> energy_penalty(task, target_energy)]

\* reasoning of select_next_task
reasoning(task, target_energy, executive_tolerance) ==
    [due_date          |-> IF _due_date_value(task) # DateMax
                           THEN isoformat(_due_date_value(task)) ELSE NoneVal,
     energy_penalty    |-> energy_penalty(task, target_energy),
     executive_penalty |-> executive_penalty(task, executive_tolerance),
     total_score       |-> energy_penalty(task, target_energy)
                           + executive_penalty(task, executive_tolerance)]

\* the sort key with the energy penalty ahead of the total
sort_key_energy_first(task, target_energy, executive_tolerance) ==
    <<_due_date_value(task),
      energy_penalty(task, target_energy),
      energy_penalty(task, target_energy)
          + executive_penalty(task, executive_tolerance),
      executive_penalty(task, executive_tolerance),
      IF _energy_cost(task).k = "int" THEN _energy_cost(task).n
      ELSE target_energy,
      IF _executive_weight(task) # NoTarget THEN _executive_weight(task)
      ELSE executive_tolerance>>

\* the tuple min() compares the tasks by
sort_key(task, target_energy, executive_tolerance) ==
    <<_due_date_value(task),
      energy_penalty(task, target_energy)
          + executive_penalty(task, executive_tolerance),
      energy_penalty(task, target_energy),
      executive_penalty(task, executive_tolerance),
      IF _energy_cost(task).k = "int" THEN _energy_cost(task).n
      ELSE target_energy,
      IF _executive_weight(task) # NoTarget THEN _executive_weight(task)
      ELSE executive_tolerance>>

\* a < b for two tuples of integers of the same length
TupleLess(a, b) ==
    \E i \in DOMAIN a : a[i] < b[i] /\ \A j \in 1..(i - 1) : a[j] = b[j]

\* the position min(scored, key=...) returns: the first of the least keys
MinPosition(keys) ==
    CHOOSE n \in DOMAIN keys :
        /\ \A m \in DOMAIN keys : ~TupleLess(keys[m], keys[n])
        /\ \A m \in 1..(n - 1) : TupleLess(keys[n], keys[m])

\* the pair (None, None)
NoSelection == [task |-> NoneVal, reasoning |-> NoneVal, raised |-> FALSE]

\* select_next_task(tasks, mood, energy_level)
select_next_task(ts, mood, energy_level) ==
    IF ts = <<>> THEN NoSelection
    ELSE LET target_energy == effective_energy_level(energy_level, mood,
                                                     DefaultEnergy)
             executive_tolerance == MOOD_EXECUTIVE_TOLERANCE(LoweredMoodKey(mood))
             keys == [n \in DOMAIN ts |->
                         sort_key(ts[n], target_energy, executive_tolerance)]
             selected == MinPosition(keys)
         IN  IF \E n \in DOMAIN ts : _energy_cost(ts[n]).k = "raise"
             THEN [NoSelection EXCEPT !.raised = TRUE]
             ELSE [task      |-> ts[selected],
                   reasoning |-> reasoning(ts[selected], target_energy,
                                           executive_tolerance),
                   raised    |-> FALSE]

Candidate(next_due, due, energy_cost, executive_trigger) ==
    [next_due |-> next_due, due |-> due, energy_cost |-> energy_cost,
     executive_trigger |-> executive_trigger]

\* candidates that differ in their due dates
DatedCandidates ==
    {Candidate(nd, d, IntVal(c), MissingText) :
        nd \in {NoneVal, isoformat(ClockFirst - 1)},
        d \in {NoneVal, BadStr, isoformat(ClockFirst)},
        c \in {1, 3}}

\* candidates due on the same day that differ in cost and trigger
ScoredCandidates ==
    {Candidate(NoneVal, isoformat(ClockFirst), c, x) :
        c \in {NoNumber, WordStr, IntVal(1), IntVal(2), IntVal(3)},
        x \in {MissingText, Keyword("low"), Keyword("medium"),
               Padded(<<TokUp("high")>>), Keyword("huge")}}

Candidates == DatedCandidates \cup ScoredCandidates

\* the task lists of up to MaxTasks candidates
RECURSIVE ListsOf(_)
ListsOf(n) ==
    IF n = 0 THEN {<<>>}
    ELSE ListsOf(n - 1)
         \cup {Append(l, c) : l \in {s \in ListsOf(n - 1) : Len(s) = n - 1},
                              c \in Candidates}

\* the moods and energy levels the selector is called with
SelectorStates ==
    {<<NoneText, NoNumber>>, <<NoneText, IntVal(3)>>,
     <<Keyword("sad"), IntVal(2)>>, <<Keyword("meh"), IntVal(3)>>,
     <<Text(<<TokUp("joyful")>>), IntVal(3)>>,
     <<Padded(<<Tok("sad")>>), IntVal(2)>>}

InitSelect ==
    /\ probe \in {[fn |-> "select", tasks |-> l, mood |-> s[1],
                   energy_level |-> s[2], out |-> NoSelection,
                   done |-> FALSE] :
                     l \in ListsOf(MaxTasks), s \in SelectorStates}
    /\ tasks = <<>>
    /\ log = <<>>
    /\ today = ClockFirst
    /\ last = NoOp

\* out = select_next_task(tasks, mood, energy_level)
SelectStep ==
    /\ probe.fn = "select" /\ ~probe.done
    /\ probe' = [probe EXCEPT
                    !.out = select_next_task(probe.tasks, probe.mood,
                                             probe.energy_level),
                    !.done = TRUE]
    /\ UNCHANGED <<tasks, log, today, last>>

NextSelect == SelectStep

SpecSelect == InitSelect /\ [][NextSelect]_vars

----------------------------------------------------------------------------
(* Properties of the completion recorder. *)

\* the recurrence normalizes to a supported value
Supported(r) == normalize_recurrence_value(r).k # "none"

\* the date a due or last_completed value stands for, NoDate when it has none
DateValue(v) ==
    IF v.k = "date" \/ ValidIso(v) THEN ToOrdinal(v.y, v.m, v.d) ELSE NoDate

\* C1: after complete_task a task with a supported recurrence is active and a
\* task without recurrence is complete, whatever its status was before.
C1_CompletionStatus ==
    last.op = "complete_task" =>
        LET t == tasks[last.ids[1]]
        IN  /\ Supported(t.recurrence) => t.status = "active"
            /\ t.recurrence \in AbsentTexts => t.status = "complete"

C1_Witness ==
    /\ last.op = "complete_task" /\ last.ids = <<1>> /\ last.n = 2
    /\ tasks[1].recurrence = Text(<<TokUp("weekly")>>)
    /\ tasks[1].status = "active"
    /\ tasks[2].status = "complete"

\* C2: complete_task leaves the due of a task with a supported recurrence and
\* a due date strictly later than the due it had before the call.
C2_DueStrictlyAdvances ==
    [][\A i \in TaskIds :
          (/\ last'.op = "complete_task" /\ last'.ids = <<i>>
           /\ Supported(tasks[i].recurrence)
           /\ DateValue(tasks[i].due) # NoDate)
          => DateValue(tasks'[i].due) > DateValue(tasks[i].due)]_vars

\* C3: a recurring task completed on day T and annotated on day T has a
\* next_due later than T and is not due today.
C3_NotDueOnCompletionDay ==
    [][\A i \in TaskIds :
          (/\ last.op = "complete_task" /\ last.ids = <<i>>
           /\ last'.op = "apply_recurrence" /\ last'.ids = <<i>>
           /\ Supported(tasks[i].recurrence))
          => /\ DateValue(tasks'[i].next_due) > today
             /\ tasks'[i].due_today = "false"]_vars

\* no two entries of the log share (task_id, completed_at)
NoDuplicateKeys(entries) ==
    \A i, j \in DOMAIN entries :
        (/\ entries[i].task_id = entries[j].task_id
         /\ entries[i].completed_at = entries[j].completed_at) => i = j

\* the completed_at text a call records: the date in ISO form, a string
\* without the blanks around it
StampText(c) ==
    IF c.k = "date" THEN IsoStr(c.y, c.m, c.d) ELSE [c EXCEPT !.pad = FALSE]

Logged(entries, id, stamp) ==
    \E n \in DOMAIN entries :
        entries[n].task_id = id /\ entries[n].completed_at = stamp

\* C4: the log never holds two entries with the same (task_id, completed_at),
\* and recording a pair that is already logged leaves the log unchanged.
C4_LogKeysUnique ==
    [][/\ NoDuplicateKeys(log')
       /\ \A i \in TaskIds :
             (/\ last'.op = "record_task_completion" /\ last'.ids = <<i>>
              /\ Truthy(last'.arg)
              /\ Logged(log, i, StampText(last'.arg)))
             => log' = log
       /\ \A i \in TaskIds :
             (/\ last'.op = "complete_task" /\ last'.ids = <<i>>
              /\ Logged(log, i, isoformat(today)))
             => log' = log]_vars

C4_Witness ==
    /\ last.op = "record_task_completion" /\ last.n = 2
    /\ last.arg = DateOf(today)
    /\ Len(log) = 1
    /\ log[1].task_id = last.ids[1]
    /\ log[1].completed_at = isoformat(today)

----------------------------------------------------------------------------
(* Properties of the advancer. *)

\* the last day of a month: the day before the first of the month after it
LastDayOfMonth(y, m) ==
    LET first == IF m = 12 THEN ToOrdinal(y + 1, 1, 1) ELSE ToOrdinal(y, m + 1, 1)
    IN  FromOrdinal(first - 1).d

\* base plus k calendar months, the day clamped to the target month
PlusCalendarMonths(base, k) ==
    LET b     == FromOrdinal(base)
        total == b.y * 12 + (b.m - 1) + k
        ty    == total \div 12
        tm    == (total % 12) + 1
    IN  ToOrdinal(ty, tm, Min(b.d, LastDayOfMonth(ty, tm)))

\* C5: the advancer adds 1, 7, 14 or N days for daily, weekly, bi-weekly and
\* "every N days", and 1, 3, 6 or 12 calendar months with the day clamped for
\* monthly, quarterly, bi-annual and yearly.
C5_AdvanceArithmetic ==
    (probe.fn = "advance" /\ probe.done) =>
        LET r    == probe.task.recurrence
            base == probe.day
            out  == probe.out
        IN  /\ r = Keyword("daily") => out = base + 1
            /\ r = Keyword("weekly") => out = base + 7
            /\ r = Keyword("bi-weekly") => out = base + 14
            /\ \A n \in 1..10 : r = EveryDays(n) => out = base + n
            /\ r = Keyword("monthly") => out = PlusCalendarMonths(base, 1)
            /\ r = Keyword("quarterly") => out = PlusCalendarMonths(base, 3)
            /\ r = Keyword("bi-annual") => out = PlusCalendarMonths(base, 6)
            /\ r = Keyword("yearly") => out = PlusCalendarMonths(base, 12)
            /\ (r = Keyword("monthly") /\ base = ToOrdinal(2024, 1, 31))
               => out = ToOrdinal(2024, 2, 29)
            /\ (r = Keyword("monthly") /\ base = ToOrdinal(2023, 1, 31))
               => out = ToOrdinal(2023, 2, 28)

C5_Witness ==
    /\ probe.fn = "advance" /\ probe.done
    /\ probe.task.recurrence = Keyword("monthly")
    /\ probe.day = ToOrdinal(2024, 1, 31)
    /\ probe.out = ToOrdinal(2024, 2, 29)

\* z is the Nth, or for ordinal -1 the last, such weekday of its month
IsOccurrence(z, ordinal, weekday) ==
    /\ Weekday(z) = weekday
    /\ IF ordinal = 0 - 1
       THEN FromOrdinal(z + 7).m # FromOrdinal(z).m
       ELSE (FromOrdinal(z).d - 1) \div 7 + 1 = ordinal

\* C6: for "<ordinal> <weekday>" the advancer returns the earliest date after
\* base that is the Nth (or last) such weekday of its own month.
C6_NextNthWeekday ==
    (probe.fn = "advance" /\ probe.done) =>
        \A o \in OrdinalWords, w \in WeekdayWords :
            probe.task.recurrence = OrdinalRule(o, w) =>
                /\ probe.out > probe.day
                /\ IsOccurrence(probe.out, _ORDINALS(o), _WEEKDAY_MAP(w))
                /\ \A z \in (probe.day + 1)..(probe.out - 1) :
                      ~IsOccurrence(z, _ORDINALS(o), _WEEKDAY_MAP(w))

----------------------------------------------------------------------------
(* Properties of the due-date resolver. *)

\* C7: for a recurring task whose due is a date and whose last_completed is
\* unset or earlier than due, _next_due returns due for every today.
C7_ManualDueWins ==
    (probe.fn = "next_due" /\ probe.done) =>
        LET t == probe.task
        IN  (/\ TextTruthy(t.recurrence)
             /\ DateValue(t.due) # NoDate
             /\ \/ t.last_completed = NoneVal
                \/ /\ DateValue(t.last_completed) # NoDate
                   /\ DateValue(t.last_completed) < DateValue(t.due))
            => probe.out = DateValue(t.due)

C7_Witness ==
    /\ probe.fn = "next_due" /\ probe.done
    /\ probe.task.recurrence = Keyword("daily")
    /\ probe.task.due = isoformat(ClockFirst + 40)
    /\ probe.task.last_completed = isoformat(ClockFirst + 1)
    /\ probe.day = ClockFirst
    /\ probe.out = ClockFirst + 40

\* C8: _next_due returns today for every task whose recurrence is absent or
\* does not normalize to a supported value.
C8_NoRecurrenceGivesToday ==
    (probe.fn = "next_due" /\ probe.done /\ ~Supported(probe.task.recurrence))
        => probe.out = probe.day

----------------------------------------------------------------------------
(* Properties of the error handling. *)

\* the recurrence is a string that does not normalize to a supported value
Unsupported(r) == r.k = "str" /\ r # Text(<<>>) /\ ~Supported(r)

\* C9: a task with an unsupported recurrence is treated as non-recurring:
\* complete_task sets it complete and keeps its due, and apply_recurrence
\* gives it no recurrence-derived next_due.
C9_UnsupportedIsNonRecurring ==
    [][\A i \in TaskIds :
          Unsupported(tasks[i].recurrence) =>
              /\ (last'.op = "complete_task" /\ last'.ids = <<i>>)
                 => /\ tasks'[i].status = "complete"
                    /\ tasks'[i].due = tasks[i].due
              /\ (last'.op = "apply_recurrence" /\ tasks'[i] # tasks[i])
                 => DateValue(tasks'[i].next_due) \in
                        {NoDate, today, DateValue(tasks[i].due)}]_vars

\* C10: apply_recurrence and complete_task never raise on a malformed due or
\* last_completed, and every task of the batch is annotated.
C10_MalformedDatesNeverRaise ==
    last.op \in {"apply_recurrence", "complete_task"} =>
        /\ ~last.raised
        /\ last.op = "apply_recurrence" =>
               \A n \in DOMAIN last.ids : tasks[last.ids[n]].due_today # "absent"

----------------------------------------------------------------------------
(* Properties of the annotation pass. *)

\* C11: after apply_recurrence every task of the list has a next_due that is
\* a valid ISO date, and it is today for a task with neither due nor recurrence.
C11_NextDueAlwaysDefined ==
    last.op = "apply_recurrence" =>
        \A n \in DOMAIN last.ids :
            LET t == tasks[last.ids[n]]
            IN  /\ ValidIso(t.next_due)
                /\ (~TextTruthy(t.recurrence) /\ ~Truthy(t.due))
                   => DateValue(t.next_due) = today

\* C12: apply_recurrence sets due_today on every task: (_next_due <= today)
\* with next_due that date for a recurring task, (due <= today) for a task
\* with a due and no recurrence, false for a task with neither.
C12_DueTodayOnEveryTask ==
    last.op = "apply_recurrence" =>
        \A n \in DOMAIN last.ids :
            LET t == tasks[last.ids[n]]
                b == IF t.due_today = "true" THEN TRUE ELSE FALSE
            IN  /\ t.due_today \in {"true", "false"}
                /\ TextTruthy(t.recurrence)
                   => /\ DateValue(t.next_due) = _next_due(t, today)
                      /\ b = (_next_due(t, today) <= today)
                /\ (~TextTruthy(t.recurrence) /\ Truthy(t.due))
                   => b = (DateValue(t.due) <= today)
                /\ (~TextTruthy(t.recurrence) /\ ~Truthy(t.due)) => ~b

\* the annotation values above, for the calls of apply_recurrence that return
DueTodayWhenReturning ==
    (last.op = "apply_recurrence" /\ ~last.raised) => C12_DueTodayOnEveryTask

----------------------------------------------------------------------------
(* Properties of the task store. *)

\* C13: starting from a store without runtime fields, no persisted task
\* carries next_due or due_today after any sequence of create_task,
\* save_tasks and mark_tasks_complete.
C13_StoreHasNoRuntimeFields ==
    \A n \in DOMAIN tasks :
        tasks[n].next_due = NoneVal /\ tasks[n].due_today = "absent"

C13_Witness ==
    /\ last.op = "mark_tasks_complete" /\ ~last.raised /\ last.n = 2
    /\ Len(tasks) = 3
    /\ \E n \in DOMAIN tasks :
          /\ tasks[n].id \in last.arg
          /\ TextTruthy(tasks[n].recurrence)
          /\ tasks[n].last_completed = isoformat(today)
          /\ DateValue(tasks[n].due) > today
    /\ C13_StoreHasNoRuntimeFields

----------------------------------------------------------------------------
(* Properties of the energy target. *)

\* the energy level is a number: an int, a float or a string of digits
Numeric(e) == e.k \in {"int", "float", "digits"}

\* the target of a mood the selector recognizes, NoTarget for any other mood
RecognizedTarget(mood) == MOOD_ENERGY_TARGETS(StrippedMoodKey(mood))

\* C14: effective_energy_level returns min(energy, mood_target) when a numeric
\* energy and a recognized mood are given, the one available signal when only
\* one is given, default when neither is, and never raises on a non-numeric
\* energy.
C14_MinimumOfTheSignals ==
    (probe.fn = "energy" /\ probe.done) =>
        LET e == probe.energy_level
            t == RecognizedTarget(probe.mood)
        IN  /\ ~probe.raised
            /\ (Numeric(e) /\ t # NoTarget) => 2 * probe.out = Min(e.h, 2 * t)
            /\ (Numeric(e) /\ t = NoTarget) => 2 * probe.out = e.h
            /\ (~Numeric(e) /\ t # NoTarget) => probe.out = t
            /\ (~Numeric(e) /\ t = NoTarget) => probe.out = probe.default

\* C14, amended: the energy is read with int(), which truncates, and the
\* minimum, or the one available signal, is clamped below at 0; default is
\* returned as it is when neither signal is given, and nothing is raised.
C14_ClampedMinimumOfTheSignals ==
    (probe.fn = "energy" /\ probe.done) =>
        LET e == probe.energy_level
            t == RecognizedTarget(probe.mood)
            n == IntOf(e).n
        IN  /\ ~probe.raised
            /\ (Numeric(e) /\ t # NoTarget) => probe.out = Max(0, Min(n, t))
            /\ (Numeric(e) /\ t = NoTarget) => probe.out = Max(0, n)
            /\ (~Numeric(e) /\ t # NoTarget) => probe.out = t
            /\ (~Numeric(e) /\ t = NoTarget) => probe.out = probe.default

C14_Witness ==
    /\ probe.fn = "energy" /\ probe.done
    /\ probe.energy_level = IntVal(0 - 2)
    /\ probe.mood = Keyword("sad")
    /\ probe.out = 0

\* C15: without a numeric energy, sad gives 1 and joyful gives 5 in any
\* letter case, from task_selector and from routes.openai_route alike.
C15_MoodTargetInBothModules ==
    (probe.fn = "energy" /\ probe.done /\ ~Numeric(probe.energy_level)) =>
        /\ StrippedMoodKey(probe.mood) = "sad"
           => (probe.out = 1 /\ probe.route_out = 1)
        /\ StrippedMoodKey(probe.mood) = "joyful"
           => (probe.out = 5 /\ probe.route_out = 5)

----------------------------------------------------------------------------
(* Properties of the selector. *)

\* the selector has run on a list with at least one task
Selected == probe.fn = "select" /\ probe.done /\ probe.tasks # <<>>

\* the effective due date of a task: next_due, else due; NoDate when it has
\* none or the value is no date
EffectiveDue(task) ==
    DateValue(IF Truthy(task.next_due) THEN task.next_due ELSE task.due)

\* a is due before b, a task without a date being due after every date
Before(a, b) ==
    /\ EffectiveDue(a) # NoDate
    /\ EffectiveDue(b) = NoDate \/ EffectiveDue(a) < EffectiveDue(b)

Target == effective_energy_level(probe.energy_level, probe.mood, DefaultEnergy)

\* the energy cost of a task as a number, NoTarget when it has none
NumericCost(task) ==
    IF Numeric(task.energy_cost) THEN IntOf(task.energy_cost).n ELSE NoTarget

\* the weight of the trigger of a task, NoTarget when it has none
TriggerWeight(task) ==
    LET w == WordOf(Lower(Strip(task.executive_trigger)))
    IN  CASE w = "low" -> 0
          [] w = "medium" -> 1
          [] w = "high" -> 2
          [] OTHER -> NoTarget

\* the tolerance of the mood of the call
MoodTolerance ==
    LET w == WordOf(Lower(probe.mood))
    IN  CASE w = "sad" -> 0
          [] w = "meh" -> 1
          [] w = "okay" -> 1
          [] w = "joyful" -> 2
          [] OTHER -> 1

EnergyPenalty(task) ==
    IF NumericCost(task) = NoTarget THEN 0 ELSE Abs(NumericCost(task) - Target)

ExecutivePenalty(task) ==
    IF TriggerWeight(task) = NoTarget THEN 0
    ELSE Max(0, TriggerWeight(task) - MoodTolerance)

TotalScore(task) == EnergyPenalty(task) + ExecutivePenalty(task)

\* a ranks ahead of b: a lower total score, then a lower energy penalty (the
\* executive penalties are then equal as well), then a lower cost, then a
\* lower trigger weight
Better(a, b) ==
    \/ TotalScore(a) < TotalScore(b)
    \/ /\ TotalScore(a) = TotalScore(b)
       /\ \/ EnergyPenalty(a) < EnergyPenalty(b)
          \/ /\ EnergyPenalty(a) = EnergyPenalty(b)
             /\ NumericCost(a) # NoTarget /\ NumericCost(b) # NoTarget
             /\ \/ NumericCost(a) < NumericCost(b)
                \/ /\ NumericCost(a) = NumericCost(b)
                   /\ TriggerWeight(a) # NoTarget /\ TriggerWeight(b) # NoTarget
                   /\ TriggerWeight(a) < TriggerWeight(b)

C18_PrefersCostAtEnergyLevel ==
    (/\ Selected
     /\ probe.energy_level.k = "int"
     /\ \A n \in DOMAIN probe.tasks :
           /\ EffectiveDue(probe.tasks[n]) = EffectiveDue(probe.tasks[1])
           /\ probe.tasks[n].executive_trigger = MissingText
           /\ NumericCost(probe.tasks[n]) # NoTarget
           /\ NumericCost(probe.tasks[n]) <= IntOf(probe.energy_level).n
     /\ \E n \in DOMAIN probe.tasks :
           NumericCost(probe.tasks[n]) = IntOf(probe.energy_level).n)
    => /\ NumericCost(probe.out.task) = IntOf(probe.energy_level).n
       /\ probe.out.reasoning.energy_penalty = 0

Malformed(task) ==
    \/ NumericCost(task) = NoTarget
    \/ TriggerWeight(task) = NoTarget /\ task.executive_trigger # MissingText
    \/ Truthy(task.due) /\ DateValue(task.due) = NoDate

----------------------------------------------------------------------------
(* utils/recurrence.py: the normalizer on its own. *)

\* Largest day count written in a probed recurrence string.
MaxCount == 3

CaseForms(w) == {Text(<<Tok(w)>>), Text(<<TokUp(w)>>), Padded(<<TokUp(w)>>)}

\* strings of one word
WordInputs ==
    UNION {CaseForms(w) : w \in SUPPORTED_KEYWORDS \cup {"sometimes", "fortnightly"}}

\* strings that count a unit, with and without a leading "every"
CountInputs ==
    UNION {{Text(<<Num(n), Tok(u)>>), Padded(<<Num(n), TokUp(u)>>),
            Text(<<Tok("every"), Num(n), Tok(u)>>),
            Padded(<<TokUp("every"), Num(n), Tok(u)>>),
            Text(<<Tok("each"), Num(n), Tok(u)>>)} :
              n \in 0..MaxCount, u \in {"days", "day", "weeks"}}

\* strings of two words
PairInputs ==
    UNION {{Text(<<Tok(o), Tok(w)>>), Padded(<<TokUp(o), Tok(w)>>),
            Text(<<Tok(o), TokUp(w)>>)} :
              o \in OrdinalWords \cup {"fifth"}, w \in WeekdayWords \cup {"mon"}}

NormalizeInputs ==
    {NoneText, Text(<<>>), Padded(<<>>),
     Text(<<Tok("every"), Tok("zero"), Tok("days")>>),
     Text(<<Tok("daily"), Tok("weekly")>>),
     Text(<<Tok("every"), Tok("first"), Tok("monday")>>),
     Text(<<Num(2)>>)}
    \cup WordInputs \cup CountInputs \cup PairInputs

InitNormalize ==
    /\ probe \in {[fn |-> "normalize", value |-> v, out |-> NoneText, done |-> FALSE] :
                     v \in NormalizeInputs}
    /\ tasks = <<>>
    /\ log = <<>>
    /\ today = ClockFirst
    /\ last = NoOp

\* out = normalize_recurrence_value(value)
NormalizeStep ==
    /\ probe.fn = "normalize" /\ ~probe.done
    /\ probe' = [probe EXCEPT !.out = normalize_recurrence_value(probe.value),
                              !.done = TRUE]
    /\ UNCHANGED <<tasks, log, today, last>>

NextNormalize == NormalizeStep

SpecNormalize == InitNormalize /\ [][NextNormalize]_vars

----------------------------------------------------------------------------
(* C21: the contract of the normalizer. *)

\* the string is one word spelling a supported keyword, in any case
KeywordInput(v) ==
    /\ v.k = "str" /\ Len(v.toks) = 1
    /\ v.toks[1].t = "w" /\ v.toks[1].s \in SUPPORTED_KEYWORDS

\* the string is "<N> <unit>" or "every <N> <unit>" with N >= 1, in any case
CountedInput(v, units) ==
    /\ v.k = "str"
    /\ \/ /\ Len(v.toks) = 2
          /\ v.toks[1].t = "n" /\ v.toks[1].n >= 1
          /\ v.toks[2].t = "w" /\ v.toks[2].s \in units
       \/ /\ Len(v.toks) = 3
          /\ v.toks[1].t = "w" /\ v.toks[1].s = "every"
          /\ v.toks[2].t = "n" /\ v.toks[2].n >= 1
          /\ v.toks[3].t = "w" /\ v.toks[3].s \in units

\* the number N of a counted string
CountOf(v) == IF Len(v.toks) = 2 THEN v.toks[1].n ELSE v.toks[2].n

\* the string is an ordinal word followed by a full weekday name, in any case
OrdinalInput(v) ==
    /\ v.k = "str" /\ Len(v.toks) = 2
    /\ v.toks[1].t = "w" /\ v.toks[1].s \in {"first", "second", "third", "fourth", "last"}
    /\ v.toks[2].t = "w"
    /\ v.toks[2].s \in {"monday", "tuesday", "wednesday", "thursday", "friday",
                         "saturday", "sunday"}

\* the value the contract gives for the input, the counted unit being one of units
Normalized(v, units) ==
    IF KeywordInput(v) THEN Text(<<Tok(v.toks[1].s)>>)
    ELSE IF CountedInput(v, units)
         THEN Text(<<Tok("every"), Num(CountOf(v)), Tok("days")>>)
    ELSE IF OrdinalInput(v) THEN Text(<<Tok(v.toks[1].s), Tok(v.toks[2].s)>>)
    ELSE NoneText

\* C21 as stated: the normalizer returns the lower-case keyword for a keyword
\* in any case, "every N days" for "<N> days" and "every <N> days" with
\* N >= 1, the lower-case "<ordinal> <weekday>" for an ordinal rule, and None
\* for every other input.
C21_NormalizerContract ==
    (probe.fn = "normalize" /\ probe.done)
        => probe.out = Normalized(probe.value, {"days"})

\* C21 amended: the same, the counted strings being "<N> day", "<N> days",
\* "every <N> day" and "every <N> days" with N >= 1.
C21_NormalizerContractWithSingularDay ==
    (probe.fn = "normalize" /\ probe.done)
        => probe.out = Normalized(probe.value, {"day", "days"})

\* "  EVERY 2 day  " has been normalized to "every 2 days"
C21_Witness ==
    /\ probe.fn = "normalize" /\ probe.done
    /\ probe.value = Padded(<<TokUp("every"), Num(2), Tok("day")>>)
    /\ probe.out = Text(<<Tok("every"), Num(2), Tok("days")>>)

----------------------------------------------------------------------------
(* routes/openai_route.py: POST /plan.  Under SpecPlan the variable tasks   *)
(* is the persisted task list, probe holds the energy log and whether a     *)
(* plan has been saved, and last holds the request, the status of the       *)
(* response, the selected task and the calls the handler made, in order.    *)

\* Number of requests POST /plan handles in a run.
MaxRequests == 1

\* a stored task with the fields the selector reads
PlanTask(id, status, recurrence, due, energy_cost, executive_trigger) ==
    [id |-> id, status |-> status, recurrence |-> recurrence, due |-> due,
     last_completed |-> NoneVal, next_due |-> NoneVal, due_today |-> "absent",
     energy_cost |-> energy_cost, executive_trigger |-> executive_trigger]

\* tasks.due_within(tasks, days, today)
due_within(ts, days, day) ==
    SelectSeq(ts,
              LAMBDA task :
                  LET date_str == IF Truthy(task.next_due) THEN task.next_due
                                  ELSE task.due
                  IN  /\ Truthy(date_str)
                      /\ fromisoformat(StrOf(date_str)) # NoDate
                      /\ fromisoformat(StrOf(date_str)) <= day + days)

\* the incomplete tasks of upcoming_tasks
Incomplete(all_tasks) == SelectSeq(all_tasks, LAMBDA t : t.status # "complete")

\* tasks.upcoming_tasks(days=days, today=day)
upcoming_tasks(store, days, day) ==
    due_within(Incomplete(read_tasks(store, day)), days, day)

\* planner.filter_tasks_by_energy(tasks, energy) for an energy that is not None
filter_tasks_by_energy(ts, energy) ==
    SelectSeq(ts, LAMBDA task : \/ IntOf(task.energy_cost).err # ""
                                \/ IntOf(task.energy_cost).n <= energy)

\* routes.openai_route._select_next_task; its sort_key, _due_date_value,
\* _energy_cost, _executive_weight and executive tables are those of
\* task_selector line for line, its effective_energy_level is its own
route_select_next_task(ts, mood, energy_level) ==
    IF ts = <<>> THEN NoneVal
    ELSE ts[MinPosition(
                [n \in DOMAIN ts |->
                    sort_key(ts[n],
                             route_effective_energy_level(energy_level, mood,
                                                          DefaultEnergy),
                             MOOD_EXECUTIVE_TOLERANCE(LoweredMoodKey(mood)))])]

\* the body of a request: none, or a PlanRequest
NoPayload ==
    [present |-> FALSE, energy |-> NoNumber, mood |-> NoneText,
     time_blocks |-> NoNumber]
PlanPayload(energy, mood, time_blocks) ==
    [present |-> TRUE, energy |-> energy, mood |-> mood,
     time_blocks |-> time_blocks]

\* selected_mode = focus or mode or "plan"; focus is "" when not given
selected_mode(request) ==
    IF request.focus # "" THEN request.focus ELSE request.mode

\* the test of next_task mode on payload_energy alone
PlanRejectsWithoutEnergy(request) ==
    /\ selected_mode(request) = "next_task"
    /\ ~(request.payload.energy.k # "none")

\* the test that raises HTTPException(status_code=400)
PlanRejects(request) ==
    /\ selected_mode(request) = "next_task"
    /\ ~(request.payload.energy.k # "none" /\ request.payload.mood.k # "none")

has_all_payload_fields(payload) ==
    /\ payload.energy.k # "none"
    /\ payload.mood.k # "none"
    /\ payload.time_blocks.k # "none"

\* latest = recorded_entry or payload_snapshot or (entries[-1] if entries else {})
\* on the path where nothing was recorded; a key the dict lacks reads as None
Latest(payload, entries) ==
    IF payload.energy.k # "none" \/ payload.mood.k # "none"
       \/ payload.time_blocks.k # "none"
    THEN [energy |-> payload.energy, mood |-> payload.mood]
    ELSE IF entries # <<>> THEN entries[Len(entries)]
    ELSE [energy |-> NoNumber, mood |-> NoneText]

\* the response of the handler and the calls it made
Response(status, calls, next_task, saved) ==
    [status |-> status, calls |-> calls, next_task |-> next_task, saved |-> saved]

\* the tasks after the energy filter and its fall-back
EnergyFiltered(unfiltered_tasks, filtered_tasks) ==
    IF filtered_tasks = <<>> /\ unfiltered_tasks # <<>> THEN unfiltered_tasks
    ELSE filtered_tasks

\* plan_endpoint from read_entries() on, the tasks being loaded
PlanWithTasks(request, loaded, latest, calls) ==
    IF selected_mode(request) = "next_task"
    THEN Response(200,
                  calls \o <<"read_entries", "filter_tasks_by_energy",
                             "_select_next_task">>,
                  route_select_next_task(
                      EnergyFiltered(
                          loaded,
                          filter_tasks_by_energy(
                              loaded,
                              route_effective_energy_level(
                                  latest.energy, latest.mood, DefaultEnergy))),
                      latest.mood, latest.energy),
                  FALSE)
    ELSE IF request.template = "plan_intensity_selector"
    THEN Response(IF request.llm_fails THEN 502 ELSE 200,
                  calls \o <<"read_entries", "filter_tasks_by_energy",
                             "ask_chatgpt">>,
                  NoneVal, FALSE)
    ELSE IF request.llm_fails
    THEN Response(502,
                  calls \o <<"read_entries", "filter_tasks_by_energy",
                             "load_events", "ask_chatgpt">>,
                  NoneVal, FALSE)
    ELSE Response(200,
                  calls \o <<"read_entries", "filter_tasks_by_energy",
                             "load_events", "ask_chatgpt", "save_plan">>,
                  NoneVal, TRUE)

\* the tasks next_task mode goes on with: those due today, or the default
\* window when there are none
DueTodayOrUpcoming(first, store, day) ==
    IF first = <<>> THEN upcoming_tasks(store, 7, day) ELSE first

\* plan_endpoint from the loading of the tasks on
PlanLoading(store, entries, request, day) ==
    IF ReadRaises(store) THEN Response(500, <<"upcoming_tasks">>, NoneVal, FALSE)
    ELSE IF selected_mode(request) = "next_task"
    THEN PlanWithTasks(request,
                       DueTodayOrUpcoming(upcoming_tasks(store, 0, day), store, day),
                       Latest(request.payload, entries),
                       IF upcoming_tasks(store, 0, day) = <<>>
                       THEN <<"upcoming_tasks", "upcoming_tasks">>
                       ELSE <<"upcoming_tasks">>)
    ELSE PlanWithTasks(request, upcoming_tasks(store, 7, day),
                       Latest(request.payload, entries), <<"upcoming_tasks">>)

\* routes.openai_route.plan_endpoint for a request without project and area
\* filters.  record_entry(payload_energy, payload_mood, payload_time_blocks)
\* hands the time blocks to energy.record_entry as its path, read_entries
\* raises AttributeError on it, and the request ends in a 500.
plan_endpoint(store, entries, request, day) ==
    IF PlanRejects(request) THEN Response(400, <<>>, NoneVal, FALSE)
    ELSE IF request.payload.present /\ has_all_payload_fields(request.payload)
    THEN Response(500, <<"record_entry">>, NoneVal, FALSE)
    ELSE PlanLoading(store, entries, request, day)

\* the stored tasks POST /plan is exercised on
PlanTasks ==
    [today    |-> PlanTask(1, "active", MissingText, isoformat(ClockFirst),
                           IntVal(2), Keyword("low")),
     daily    |-> PlanTask(2, "active", Keyword("daily"), NoneVal,
                           IntVal(4), Keyword("high")),
     closed   |-> PlanTask(3, "complete", MissingText, isoformat(ClockFirst),
                           IntVal(1), MissingText),
     later    |-> PlanTask(4, "active", MissingText, isoformat(ClockFirst + 3),
                           WordStr, Keyword("medium")),
     far      |-> PlanTask(5, "active", MissingText, isoformat(ClockFirst + 30),
                           IntVal(1), MissingText),
     broken   |-> PlanTask(6, "active", MissingText, BadStr, IntVal(1),
                           MissingText)]

PlanStores ==
    {<<>>, <<PlanTasks.today, PlanTasks.daily>>,
     <<PlanTasks.daily, PlanTasks.today>>, <<PlanTasks.closed, PlanTasks.later>>,
     <<PlanTasks.far>>, <<PlanTasks.today, PlanTasks.broken>>}

\* the energy log read_entries returns
EnergyLogs ==
    {<<>>, <<[energy |-> IntVal(1), mood |-> Text(<<TokUp("sad")>>)]>>}

PlanPayloads ==
    {NoPayload}
    \cup {PlanPayload(e, m, b) :
            e \in {NoNumber, IntVal(0), IntVal(3)},
            m \in {NoneText, Text(<<TokUp("joyful")>>)},
            b \in {NoNumber, IntVal(2)}}

PlanRequests ==
    {[mode |-> mode, focus |-> focus, template |-> template,
      payload |-> payload, llm_fails |-> llm_fails] :
        mode \in {"plan", "next_task"}, focus \in {"", "plan", "next_task"},
        template \in {"plan_intensity_selector", "morning_planner"},
        payload \in PlanPayloads, llm_fails \in BOOLEAN}

InitPlan ==
    /\ tasks \in PlanStores
    /\ log = <<>>
    /\ today = ClockFirst
    /\ last = NoOp
    /\ probe \in {[fn |-> "plan", entries |-> e, plan_saved |-> FALSE] :
                     e \in EnergyLogs}

\* the record of a handled request
Handled(request, response) ==
    [op |-> "plan_endpoint", ids |-> <<>>, arg |-> request,
     raised |-> response.status = 500, n |-> last.n + 1, status |-> response.status,
     calls |-> response.calls, next_task |-> response.next_task,
     saved |-> response.saved]

\* POST /plan
PlanEndpoint(request) ==
    /\ last.n < MaxRequests
    /\ last' = Handled(request,
                       plan_endpoint(tasks, probe.entries, request, today))
    /\ probe' = [probe EXCEPT !.plan_saved = probe.plan_saved \/ last'.saved]
    /\ UNCHANGED <<tasks, log, today>>

NextPlan == \E request \in PlanRequests : PlanEndpoint(request)

SpecPlan == InitPlan /\ [][NextPlan]_vars

----------------------------------------------------------------------------
(* C22: next_task mode without energy or mood. *)

\* the request asks for next_task mode: focus wins over mode when given
InNextTaskMode(request) ==
    \/ request.focus = "next_task"
    \/ request.focus = "" /\ request.mode = "next_task"

\* the request has no body, or its body has no energy or no mood
LacksEnergyOrMood(payload) ==
    ~payload.present \/ payload.energy = NoNumber \/ payload.mood = NoneText

Called(name) == \E n \in DOMAIN last.calls : last.calls[n] = name

\* C22: a /plan request in next_task mode whose payload lacks energy or mood,
\* or that has no body, is answered with status 400, and the handler has
\* neither recorded an energy entry nor loaded the tasks.
C22_NextTaskNeedsEnergyAndMood ==
    (/\ last.op = "plan_endpoint"
     /\ InNextTaskMode(last.arg)
     /\ LacksEnergyOrMood(last.arg.payload))
        => /\ last.status = 400
           /\ ~Called("record_entry")
           /\ ~Called("upcoming_tasks")

\* a next_task request with an energy, a time block count and no mood has
\* been rejected
C22_Witness ==
    /\ last.op = "plan_endpoint"
    /\ InNextTaskMode(last.arg)
    /\ last.arg.payload = PlanPayload(IntVal(3), NoneText, IntVal(2))
    /\ last.status = 400
    /\ last.calls = <<>>

----------------------------------------------------------------------------
(* C23: the base the resolver advances from. *)

\* C23: for a task with a supported recurrence whose due is absent or not
\* later than last_completed, _next_due returns the recurrence advanced from
\* last_completed when that is a date, and advanced from today when it is not.
C23_AdvancesFromLastCompletedOrToday ==
    (probe.fn = "next_due" /\ probe.done) =>
        LET t == probe.task
        IN  (/\ Supported(t.recurrence)
             /\ \/ DateValue(t.due) = NoDate
                \/ /\ DateValue(t.last_completed) # NoDate
                   /\ DateValue(t.due) <= DateValue(t.last_completed))
            => probe.out =
                   _advance_for_recurrence(
                       IF DateValue(t.last_completed) # NoDate
                       THEN DateValue(t.last_completed) ELSE probe.day,
                       t.recurrence)

\* a daily task due before its last completion has been resolved to the day
\* after the completion, which is not what today gives
C23_Witness ==
    /\ probe.fn = "next_due" /\ probe.done
    /\ probe.task.recurrence = Keyword("daily")
    /\ probe.task.due = isoformat(ClockFirst - 2)
    /\ probe.task.last_completed = isoformat(ClockFirst + 1)
    /\ probe.day = ClockFirst
    /\ probe.out = ClockFirst + 2
    /\ probe.out # _advance_for_recurrence(probe.day, probe.task.recurrence)

----------------------------------------------------------------------------
(* C24: the completion log only grows at its end. *)

\* the list is the other one with nothing or one element added at its end
SameOrOneMore(before, after) ==
    \/ after = before
    \/ /\ Len(after) = Len(before) + 1
       /\ \A n \in DOMAIN before : after[n] = before[n]

\* C24: no complete_task and no record_task_completion call removes, reorders
\* or alters an entry of the completion log, and each call adds at most one
\* entry, at the end.
C24_LogIsAppendOnly ==
    [][SameOrOneMore(log, log')]_vars

\* a completion has been logged behind the two entries the log started with
C24_Witness ==
    /\ last.op = "complete_task"
    /\ Len(log) = 3
    /\ log[1] = [task_id |-> 1, due |-> EmptyStr, completed_at |-> isoformat(ClockFirst)]
    /\ log[2] = [task_id |-> 2, due |-> EmptyStr, completed_at |-> isoformat(ClockFirst)]
    /\ log[3].task_id = last.ids[1]
    /\ log[3].completed_at = isoformat(today)

----------------------------------------------------------------------------
(* C25: what mark_tasks_complete changes and what it leaves alone. *)

\* the step is a call of mark_tasks_complete with the ids last'.arg
MarkStep == last'.op = "mark_tasks_complete"

\* the stored tasks the call names
Named == {n \in DOMAIN tasks : tasks[n].id \in last'.arg}

\* every named task is persisted as completed today, every other task as it
\* was stored, and the count returned is the number of named tasks
ExactlyTheNamedCompleted ==
    /\ DOMAIN tasks' = DOMAIN tasks
    /\ \A n \in Named :
          /\ tasks'[n].last_completed = isoformat(today)
          /\ tasks'[n].id = tasks[n].id
    /\ \A n \in DOMAIN tasks \ Named : tasks'[n] = tasks[n]
    /\ last'.count = Cardinality(Named)

\* C25: mark_tasks_complete(ids) completes exactly the stored tasks whose id
\* is in ids, persists every other task with its stored fields unchanged, and
\* returns the number of tasks it completed.
C25_CompletesExactlyTheIds ==
    [][MarkStep => (~last'.raised /\ ExactlyTheNamedCompleted)]_vars

\* the same for the calls whose read_tasks returns
C25_CompletesExactlyTheIdsWhenRead ==
    [][(MarkStep /\ ~last'.raised) => ExactlyTheNamedCompleted]_vars

----------------------------------------------------------------------------
(* tasks.py: two calls of the completion recorder at once.  Under           *)
(* SpecRecord the variable tasks holds the task copy of each caller, log is *)
(* the completion log file, and probe holds, for each caller, its call, its *)
(* position in record_task_completion and the entries it has read.  The    *)
(* file is read in one step; it is written in two, as open(target, "w")     *)
(* empties it before yaml.dump fills it.                                    *)

\* the two request-handling threads
Callers == {1, 2}

\* the task and the completed_at record_task_completion is called with:
\* complete_task stamps its task and passes today
RecordedTask(p) ==
    IF probe.calls[p].kind = "complete_task"
    THEN [tasks[p] EXCEPT !.last_completed = isoformat(today)] ELSE tasks[p]
RecordedAt(p) ==
    IF probe.calls[p].kind = "complete_task" THEN isoformat(today)
    ELSE probe.calls[p].completed_at

\* timestamp of record_task_completion
TimestampOf(task, completed_at) ==
    _normalize_completion_timestamp(
        IF Truthy(completed_at) THEN completed_at ELSE task.last_completed)

At(p, pc) == [probe EXCEPT !.pc[p] = pc]

\* the call is made: without a timestamp record_task_completion returns,
\* with one it reads the log
RecordRead(p) ==
    /\ probe.fn = "record" /\ probe.pc[p] = "call"
    /\ probe' = IF ~Truthy(TimestampOf(RecordedTask(p), RecordedAt(p)))
                THEN At(p, "return")
                ELSE [At(p, "read") EXCEPT !.entries[p] = log]
    /\ UNCHANGED <<tasks, log, today, last>>

\* with the key among the entries read record_task_completion returns,
\* without it _write_task_completions opens the file for writing
RecordOpen(p) ==
    /\ probe.fn = "record" /\ probe.pc[p] = "read"
    /\ IF record_task_completion(probe.entries[p], RecordedTask(p), RecordedAt(p))
              = probe.entries[p]
       THEN probe' = At(p, "return") /\ log' = log
       ELSE probe' = At(p, "open") /\ log' = <<>>
    /\ UNCHANGED <<tasks, today, last>>

\* yaml.dump writes the entries read and the new one
RecordDump(p) ==
    /\ probe.fn = "record" /\ probe.pc[p] = "open"
    /\ log' = record_task_completion(probe.entries[p], RecordedTask(p),
                                     RecordedAt(p))
    /\ probe' = At(p, "return")
    /\ UNCHANGED <<tasks, today, last>>

\* record_task_completion has returned: complete_task sets status and due of
\* its task copy, and the call returns
CallReturn(p) ==
    /\ probe.fn = "record" /\ probe.pc[p] = "return"
    /\ tasks' = IF probe.calls[p].kind = "complete_task"
                THEN [tasks EXCEPT ![p] = complete_task(tasks[p], today)]
                ELSE tasks
    /\ probe' = At(p, "done")
    /\ UNCHANGED <<log, today, last>>

\* the calls a caller makes
RecorderCalls(day) ==
    {[kind |-> "complete_task", completed_at |-> NoneVal]}
    \cup {[kind |-> "record_task_completion", completed_at |-> c] :
             c \in CompletedAtInputs(day)}

InitRecord ==
    /\ tasks \in {[p \in Callers |->
                      IF p = 1 THEN NewTask(1, "active", r, NoneVal, NoneVal)
                      ELSE NewTask(2, "active", MissingText, NoneVal, l)] :
                     r \in {MissingText, Keyword("daily")},
                     l \in {NoneVal, isoformat(ClockFirst - 1)}}
    /\ log \in InitLogs
    /\ today \in ClockFirst..(ClockFirst + ClockSpan - 1)
    /\ last = NoOp
    /\ probe \in {[fn |-> "record", initial |-> log, calls |-> c,
                   pc |-> [p \in Callers |-> "call"],
                   entries |-> [p \in Callers |-> <<>>]] :
                     c \in [Callers -> RecorderCalls(today)]}

NextRecord ==
    \/ \E p \in Callers : RecordRead(p)
    \/ \E p \in Callers : RecordOpen(p)
    \/ \E p \in Callers : RecordDump(p)
    \/ \E p \in Callers : CallReturn(p)

SpecRecord == InitRecord /\ [][NextRecord]_vars

----------------------------------------------------------------------------
(* C26: two completions recorded at once. *)

\* the (task_id, completed_at) pair the call of p records, when it has one
KeyOf(p) == <<tasks[p].id, TimestampOf(RecordedTask(p), RecordedAt(p))>>

\* C26: when two record_task_completion or complete_task calls for different
\* (task_id, completed_at) pairs, each on its own task copy, run at once on
\* one completion log, the log holds both entries once both have returned,
\* behind every entry it held before.
C26_ConcurrentRecordsBothKept ==
    (/\ probe.fn = "record"
     /\ \A p \in Callers : probe.pc[p] = "done"
     /\ \A p \in Callers : Truthy(KeyOf(p)[2])
     /\ KeyOf(1) # KeyOf(2))
        => /\ \A p \in Callers : Logged(log, KeyOf(p)[1], KeyOf(p)[2])
           /\ \A n \in DOMAIN probe.initial :
                 n \in DOMAIN log /\ log[n] = probe.initial[n]

----------------------------------------------------------------------------
(* tasks.py: two calls of mark_tasks_complete at once, as two completion    *)
(* requests handled by two threads make them.  Under SpecMark the variable  *)
(* tasks is the persisted list, log the completion log, and probe holds,    *)
(* for each caller, its position in mark_tasks_complete and the list it     *)
(* has read.  Caller p completes the task with id p.  The file is read in   *)
(* one step and written in two, as open(path, "w") empties it before        *)
(* yaml.dump fills it; the completion log is written within the loop.       *)

\* task_ids of the call of caller p
MarkedBy(p) == {p}

\* tasks = read_tasks(path)
MarkRead(p) ==
    /\ probe.fn = "mark" /\ probe.pc[p] = "call"
    /\ probe' = IF ReadRaises(tasks) THEN At(p, "raised")
                ELSE [At(p, "loaded") EXCEPT !.loaded[p] = read_tasks(tasks, today)]
    /\ UNCHANGED <<tasks, log, today, last>>

\* the loop over the tasks read
MarkLoop(p) ==
    /\ probe.fn = "mark" /\ probe.pc[p] = "loaded"
    /\ probe' = [At(p, "completed") EXCEPT
                    !.loaded[p] = MarkLoaded(probe.loaded[p], MarkedBy(p), today),
                    !.count[p] = MarkCount(probe.loaded[p], MarkedBy(p))]
    /\ log' = CompletionsLogged(
                  log, probe.loaded[p],
                  {n \in DOMAIN probe.loaded[p] : probe.loaded[p][n].id \in MarkedBy(p)},
                  today, 1)
    /\ UNCHANGED <<tasks, today, last>>

\* write_tasks opens the file for writing
MarkOpen(p) ==
    /\ probe.fn = "mark" /\ probe.pc[p] = "completed"
    /\ tasks' = <<>>
    /\ probe' = At(p, "open")
    /\ UNCHANGED <<log, today, last>>

\* yaml.dump writes the list, and mark_tasks_complete returns count
MarkDump(p) ==
    /\ probe.fn = "mark" /\ probe.pc[p] = "open"
    /\ tasks' = probe.loaded[p]
    /\ probe' = At(p, "done")
    /\ UNCHANGED <<log, today, last>>

InitMark ==
    /\ tasks \in {<<a, b>> : a \in StoreFirstTasks, b \in StoreSecondTasks}
    /\ log = <<>>
    /\ today \in ClockFirst..(ClockFirst + ClockSpan - 1)
    /\ last = NoOp
    /\ probe = [fn |-> "mark", pc |-> [p \in Callers |-> "call"],
                loaded |-> [p \in Callers |-> <<>>],
                count |-> [p \in Callers |-> 0]]

NextMark ==
    \/ \E p \in Callers : MarkRead(p)
    \/ \E p \in Callers : MarkLoop(p)
    \/ \E p \in Callers : MarkOpen(p)
    \/ \E p \in Callers : MarkDump(p)

SpecMark == InitMark /\ [][NextMark]_vars

----------------------------------------------------------------------------
(* C27: two completion requests handled at once. *)

\* the store holds the task with this id, completed today
PersistedCompleted(id) ==
    \E n \in DOMAIN tasks :
        tasks[n].id = id /\ tasks[n].last_completed = isoformat(today)

\* C27: when two mark_tasks_complete calls for different task ids run at once
\* on one task store, both tasks are persisted as completed, with
\* last_completed set, once both calls have returned.
C27_ConcurrentMarksBothPersisted ==
    (probe.fn = "mark" /\ \A p \in Callers : probe.pc[p] = "done")
        => \A p \in Callers : PersistedCompleted(p)

----------------------------------------------------------------------------
(* tasks.py: complete_task called twice on one task on one day.  Under      *)
(* SpecTwice probe holds the number of calls made, the id of the task, and  *)
(* the task and the completion log as the first call left them.             *)

\* complete_task(tasks[i], today), the first call
CompleteOnce(i) ==
    /\ probe.fn = "twice" /\ probe.calls = 0
    /\ tasks' = [tasks EXCEPT ![i] = complete_task(tasks[i], today)]
    /\ log' = record_task_completion(
                  log, [tasks[i] EXCEPT !.last_completed = isoformat(today)],
                  isoformat(today))
    /\ probe' = [probe EXCEPT !.calls = 1, !.id = i, !.task = tasks'[i],
                              !.log = log']
    /\ UNCHANGED <<today, last>>

\* complete_task(tasks[i], today), the second call on the same task
CompleteTwice(i) ==
    /\ probe.fn = "twice" /\ probe.calls = 1 /\ probe.id = i
    /\ tasks' = [tasks EXCEPT ![i] = complete_task(tasks[i], today)]
    /\ log' = record_task_completion(
                  log, [tasks[i] EXCEPT !.last_completed = isoformat(today)],
                  isoformat(today))
    /\ probe' = [probe EXCEPT !.calls = 2]
    /\ UNCHANGED <<today, last>>

InitTwice ==
    /\ tasks \in {[i \in TaskIds |-> IF i = 1 THEN a ELSE b] :
                     a \in FirstTasks, b \in SecondTasks}
    /\ log \in InitLogs
    /\ today \in ClockFirst..(ClockFirst + ClockSpan - 1)
    /\ last = NoOp
    /\ probe = [fn |-> "twice", calls |-> 0, id |-> 0,
                task |-> NewTask(0, "active", MissingText, NoneVal, NoneVal),
                log |-> <<>>]

NextTwice ==
    \/ \E i \in TaskIds : CompleteOnce(i)
    \/ \E i \in TaskIds : CompleteTwice(i)

SpecTwice == InitTwice /\ [][NextTwice]_vars

----------------------------------------------------------------------------
(* C28: completing a task twice on one day. *)

\* C28: a second complete_task(task, T) on the day T of the first leaves the
\* status, due and last_completed of the task and the completion log as the
\* first call left them.
C28_SecondCompletionChangesNothing ==
    (probe.fn = "twice" /\ probe.calls = 2) =>
        /\ tasks[probe.id].status = probe.task.status
        /\ tasks[probe.id].due = probe.task.due
        /\ tasks[probe.id].last_completed = probe.task.last_completed
        /\ log = probe.log

\* a daily task that was overdue has been completed twice today: it is due
\* tomorrow and the log holds its completion once
C28_Witness ==
    /\ probe.fn = "twice" /\ probe.calls = 2 /\ probe.id = 1
    /\ tasks[1].recurrence = Keyword("daily")
    /\ tasks[1].due = isoformat(today + 1)
    /\ tasks[1].last_completed = isoformat(today)
    /\ Cardinality({n \in DOMAIN log :
                       log[n].task_id = 1 /\ log[n].completed_at = isoformat(today)}) = 1

----------------------------------------------------------------------------
(* tasks.py: a recurring task that is never completed, read day after day.  *)
(* Under SpecDue the variable tasks holds the stored task, which no step    *)
(* changes, and probe holds the task as apply_recurrence last annotated it  *)
(* and the day of that annotation.  The task is read on every day before    *)
(* midnight passes.  As the stored task never changes, what                 *)
(* apply_recurrence makes of it on each day is worked out once, in          *)
(* probe.reads.                                                             *)

\* Number of days the clock runs on after its first day.
DueSpan == 8

\* the recurring tasks of the store: due and last_completed absent, malformed
\* or at most a few days from the first day
RecurringTasks ==
    {NewTask(1, "active", r, d, l) :
        r \in {Keyword("daily"), Text(<<TokUp("weekly")>>), EveryDays(2)},
        d \in {NoneVal, BadStr, isoformat(ClockFirst - 1), isoformat(ClockFirst + 3)},
        l \in {NoneVal, isoformat(ClockFirst - 2), isoformat(ClockFirst)}}

InitDue ==
    /\ tasks \in {[i \in {1} |-> t] : t \in RecurringTasks}
    /\ log = <<>>
    /\ today = ClockFirst
    /\ last = NoOp
    /\ probe = [fn |-> "due", day |-> 0,
                out |-> NewTask(1, "active", MissingText, NoneVal, NoneVal),
                reads |-> [d \in ClockFirst..(ClockFirst + DueSpan) |->
                              apply_recurrence(tasks, <<1>>, d)[1]]]

\* read_tasks: apply_recurrence annotates the stored task for today
AnnotateToday ==
    /\ probe.fn = "due" /\ probe.day < today
    /\ probe' = [probe EXCEPT !.out = probe.reads[today], !.day = today]
    /\ UNCHANGED <<tasks, log, today, last>>

\* midnight passes on a day the task has been read on
Midnight ==
    /\ probe.fn = "due" /\ probe.day = today
    /\ today < ClockFirst + DueSpan
    /\ today' = today + 1
    /\ UNCHANGED <<tasks, log, last, probe>>

NextDue == AnnotateToday \/ Midnight

SpecDue == InitDue /\ [][NextDue]_vars

\* days keep passing and the tasks keep being read
SpecDueFair == SpecDue /\ WF_vars(AnnotateToday) /\ WF_vars(Midnight)

----------------------------------------------------------------------------
(* C29: a recurring task comes due. *)

ReportedDue == probe.fn = "due" /\ probe.out.due_today = "true"

\* the stored task has a due or a last_completed that is a date
Anchored ==
    DateValue(tasks[1].due) # NoDate \/ DateValue(tasks[1].last_completed) # NoDate

C29_AnchoredTaskComesDue == Anchored => <>ReportedDue

\* a task with neither is annotated with the day after today on every day
C29_UnanchoredTaskIsDueTomorrow ==
    (probe.fn = "due" /\ probe.day = today /\ ~Anchored
     /\ tasks[1].recurrence = Keyword("daily"))
        => /\ probe.out.next_due = isoformat(today + 1)
           /\ probe.out.due_today = "false"

----------------------------------------------------------------------------
(* task_selector.py and routes/openai_route.py: the two selectors on the    *)
(* same task list, mood and energy level.                                   *)

\* candidates due on the same day with costs around the mood targets
CostedCandidates ==
    {Candidate(NoneVal, isoformat(ClockFirst), c, x) :
        c \in {NoNumber, IntVal(1), IntVal(3), IntVal(4), IntVal(5)},
        x \in {MissingText, Keyword("high")}}

AgreeCandidates ==
    CostedCandidates
    \cup {Candidate(isoformat(ClockFirst - 1), NoneVal, IntVal(1), MissingText),
          Candidate(NoneVal, BadStr, IntVal(4), MissingText)}

\* the task lists of up to MaxTasks of these candidates
RECURSIVE AgreeLists(_)
AgreeLists(n) ==
    IF n = 0 THEN {<<>>}
    ELSE AgreeLists(n - 1)
         \cup {Append(l, c) : l \in {s \in AgreeLists(n - 1) : Len(s) = n - 1},
                              c \in AgreeCandidates}

AgreeMoods ==
    {NoneText, Keyword("sad"), Text(<<TokUp("joyful")>>),
     Padded(<<Tok("okay")>>), Keyword("sparkly")}
AgreeEnergies == {NoNumber, IntVal(3), IntVal(6)}

InitAgree ==
    /\ probe \in {[fn |-> "agree", tasks |-> l, mood |-> m, energy_level |-> e,
                   out |-> NoneVal, route_out |-> NoneVal,
                   target |-> NoTarget, route_target |-> NoTarget,
                   done |-> FALSE] :
                     l \in AgreeLists(MaxTasks), m \in AgreeMoods,
                     e \in AgreeEnergies}
    /\ tasks = <<>>
    /\ log = <<>>
    /\ today = ClockFirst
    /\ last = NoOp

\* out = task_selector.select_next_task(tasks, mood, energy_level)[0],
\* route_out = routes.openai_route._select_next_task of the same, and the
\* target each module's effective_energy_level gives
AgreeStep ==
    /\ probe.fn = "agree" /\ ~probe.done
    /\ probe' = [probe EXCEPT
                    !.out = select_next_task(probe.tasks, probe.mood,
                                             probe.energy_level).task,
                    !.route_out = route_select_next_task(
                                      probe.tasks, probe.mood, probe.energy_level),
                    !.target = effective_energy_level(
                                   probe.energy_level, probe.mood, DefaultEnergy),
                    !.route_target = route_effective_energy_level(
                                         probe.energy_level, probe.mood,
                                         DefaultEnergy),
                    !.done = TRUE]
    /\ UNCHANGED <<tasks, log, today, last>>

NextAgree == AgreeStep

SpecAgree == InitAgree /\ [][NextAgree]_vars

----------------------------------------------------------------------------
(* C30: the two selectors agree. *)

\* C30: for every task list, mood and energy level the selector of
\* routes.openai_route returns the task the selector of task_selector
\* returns, and the two effective_energy_level functions give the same target.
C30_SelectorsAgree ==
    (probe.fn = "agree" /\ probe.done) =>
        /\ probe.route_out = probe.out
        /\ probe.route_target = probe.target

\* the two selectors return the same task whenever the mood is not joyful
C30_SelectorsAgreeUnlessJoyful ==
    (probe.fn = "agree" /\ probe.done /\ StrippedMoodKey(probe.mood) # "joyful") =>
        /\ probe.route_out = probe.out
        /\ probe.route_target = probe.target
====
